---- MODULE Spec2Model ----
(***************************************************************************)
(* Batch-scan controller of NWCRC-Email-Check (src/app.py, BatchProcessor) *)
(* as a state machine.  Request threads (callers) run start_batch_scan,    *)
(* pause_batch, resume_batch and stop_batch; every accepted start launches *)
(* one worker thread running _process_batch.  Each action is one statement *)
(* (or one `with self._lock:` step) of the source, so that the unlocked    *)
(* reads and writes of the flags interleave as the threads do.             *)
(*                                                                         *)
(* Strings are sequences of one-character strings, "" is << >>.            *)
(***************************************************************************)
EXTENDS Integers, Sequences, FiniteSets, TLC

(***************************************************************************)
(* Bounds of the model.                                                    *)
(***************************************************************************)
\* number of batches (accepted start calls) in one behaviour
MaxBatches == 2
\* number of requests in one behaviour of the specification with concurrent requests
MaxCalls == 3
\* length of the list handed to start_batch_scan
MaxInput == 2

Callers == {"c1", "c2"}
Workers == 1..MaxBatches

(***************************************************************************)
(* Identifiers: email.strip().lower() and the pattern of _is_valid_email.  *)
(***************************************************************************)
UpperChars == <<"A","B","C","D","E","F","G","H","I","J","K","L","M",
                "N","O","P","Q","R","S","T","U","V","W","X","Y","Z">>
LowerChars == <<"a","b","c","d","e","f","g","h","i","j","k","l","m",
                "n","o","p","q","r","s","t","u","v","w","x","y","z">>
DigitChars == {"0","1","2","3","4","5","6","7","8","9"}
Whitespace == {" ", "\t", "\n", "\r"}

Range(s) == {s[i] : i \in DOMAIN s}
Letters == Range(UpperChars) \cup Range(LowerChars)
LocalChars == Letters \cup DigitChars \cup {".", "_", "%", "+", "-"}
DomainChars == Letters \cup DigitChars \cup {".", "-"}

ToLower(ch) ==
    IF \E i \in DOMAIN UpperChars : UpperChars[i] = ch
    THEN LowerChars[CHOOSE i \in DOMAIN UpperChars : UpperChars[i] = ch]
    ELSE ch

Lower(s) == [i \in 1..Len(s) |-> ToLower(s[i])]

RECURSIVE LStrip(_)
LStrip(s) ==
    IF s # << >> /\ Head(s) \in Whitespace THEN LStrip(Tail(s)) ELSE s

RECURSIVE RStrip(_)
RStrip(s) ==
    IF s # << >> /\ s[Len(s)] \in Whitespace
    THEN RStrip(SubSeq(s, 1, Len(s) - 1))
    ELSE s

Strip(s) == RStrip(LStrip(s))

\* email = email.strip().lower()
Normalize(s) == Lower(Strip(s))

\* ^[a-zA-Z0-9._%+-]+@[a-zA-Z0-9.-]+\.[a-zA-Z]{2,}$
IsValidEmail(s) ==
    \E a \in 1..Len(s) : \E d \in 1..Len(s) :
        /\ 1 < a /\ a + 1 < d /\ d + 2 <= Len(s)
        /\ s[a] = "@" /\ s[d] = "."
        /\ \A i \in 1..(a - 1) : s[i] \in LocalChars
        /\ \A i \in (a + 1)..(d - 1) : s[i] \in DomainChars
        /\ \A i \in (d + 1)..Len(s) : s[i] \in Letters

\* the loop of lines 229-233
ValidEmails(emails) ==
    SelectSeq([i \in 1..Len(emails) |-> Normalize(emails[i])], IsValidEmail)

\* the loop of lines 239-244
RECURSIVE Dedup(_, _, _)
Dedup(rest, seen, unique) ==
    IF rest = << >> THEN unique
    ELSE IF Head(rest) \in seen
         THEN Dedup(Tail(rest), seen, unique)
         ELSE Dedup(Tail(rest), seen \cup {Head(rest)}, Append(unique, Head(rest)))

\* the de-duplication left out
UniqueEmailsKeepsDuplicates(valid_emails) == valid_emails

UniqueEmails(valid_emails) == Dedup(valid_emails, {}, << >>)

(***************************************************************************)
(* Inputs of the model: raw strings a request may carry.                   *)
(***************************************************************************)
RawPool ==
    { <<"a","@","x",".","c","o">>,
      <<" ","A","@","X",".","c","o"," ">>,
      <<"b","@","x",".","c","o">>,
      <<"b","@","@","x",".","c","o">>,
      <<"a","@","x",".","c">> }

InputLists == UNION {[1..n -> RawPool] : n \in 0..MaxInput}

\* the lists of the specification with concurrent requests
RaceLists == { << <<"a","@","x",".","c","o">> >>, << >> }

\* the lists of the specification with fairness: two identifiers, or none valid
LiveLists == { << <<"a","@","x",".","c","o">>, <<"b","@","x",".","c","o">> >>,
               << <<"b","@","@","x",".","c","o">> >> }

\* the status of a result of _scan_single_email
Outcomes == {"clean", "compromised", "error"}

(***************************************************************************)
(* Exposure records and BreachChecker._calculate_severity.  A record is a   *)
(* breach of the remote service: Name, IsVerified, IsSensitive and          *)
(* DataClasses; a key the service leaves out reads as the default of the    *)
(* .get(...) call (False, the empty list).                                  *)
(***************************************************************************)
\* length of the longest list of exposure records handed to the classifier
MaxBreaches == 6

Passwords == <<"P","a","s","s","w","o","r","d","s">>
EmailAddresses == <<"E","m","a","i","l"," ","a","d","d","r","e","s","s","e","s">>
HistoricalPasswords ==
    <<"H","i","s","t","o","r","i","c","a","l"," ","p","a","s","s","w","o","r","d","s">>
CreditCards == <<"C","r","e","d","i","t"," ","c","a","r","d","s">>

\* line 180
high_severity_indicators ==
    << <<"p","a","s","s","w","o","r","d","s">>,
       <<"c","r","e","d","i","t"," ","c","a","r","d","s">>,
       <<"s","o","c","i","a","l"," ","s","e","c","u","r","i","t","y"," ",
         "n","u","m","b","e","r","s">> >>

Breach(name, verified, sensitive, classes) ==
    [Name |-> name, IsVerified |-> verified, IsSensitive |-> sensitive,
     DataClasses |-> classes]

\* ' '.join(labels)
RECURSIVE Join(_)
Join(labels) ==
    IF labels = << >> THEN << >>
    ELSE IF Len(labels) = 1 THEN labels[1]
    ELSE labels[1] \o <<" ">> \o Join(Tail(labels))

\* needle in hay, on strings
Contains(hay, needle) ==
    \E i \in 1..(Len(hay) - Len(needle) + 1) :
        SubSeq(hay, i, i + Len(needle) - 1) = needle

\* sum(1 for b in breaches if ...)
CountTrue(flags) == Cardinality({i \in DOMAIN flags : flags[i]})

\* lines 187-188: one of the indicators occurs in the joined lower-case labels
HasHighRiskData(breach) ==
    LET data_classes == [i \in DOMAIN breach.DataClasses |-> Lower(breach.DataClasses[i])]
    IN \E k \in DOMAIN high_severity_indicators :
          Contains(Join(data_classes), high_severity_indicators[k])

\* BreachChecker._calculate_severity, lines 175-198
CalculateSeverity(breaches) ==
    LET IsVerified(b) == b.IsVerified
        IsSensitive(b) == b.IsSensitive
        verified_breaches == CountTrue([i \in DOMAIN breaches |-> IsVerified(breaches[i])])
        sensitive_breaches == CountTrue([i \in DOMAIN breaches |-> IsSensitive(breaches[i])])
        high_risk_count == CountTrue([i \in DOMAIN breaches |-> HasHighRiskData(breaches[i])])
    IN IF breaches = << >> THEN "clean"
       ELSE IF high_risk_count > 0 \/ sensitive_breaches > 2 THEN "critical"
       ELSE IF verified_breaches > 3 \/ Len(breaches) > 5 THEN "high"
       ELSE IF Len(breaches) > 2 THEN "medium"
       ELSE "low"

\* the records the classifier is checked on
BreachPool ==
    { Breach("Adobe", FALSE, FALSE, <<EmailAddresses>>),
      Breach("LinkedIn", TRUE, FALSE, <<EmailAddresses>>),
      Breach("Ashley", FALSE, TRUE, << >>),
      Breach("Dropbox", FALSE, FALSE, <<EmailAddresses, Passwords>>),
      Breach("Collection", FALSE, FALSE, <<HistoricalPasswords>>) }

BreachLists == UNION {[1..n -> BreachPool] : n \in 0..MaxBreaches}

(***************************************************************************)
(* The remote lookup.  A response is what check_breaches gets back from    *)
(* _get_with_retry: a status code (200 with or without breaches), or an    *)
(* exception: "network" is a requests RequestException, "fault" any other. *)
(***************************************************************************)
Responses == {"200", "200six", "200sixpw", "200empty", "404", "429", "401", "500",
              "network", "fault"}

\* the responses that are a failure of the lookup
FailedResponses == {"429", "401", "500", "network", "fault"}

\* the responses check_breaches lets escape as an exception
Escapes(resp) == resp = "fault"

\* six records, two of them sensitive and one verified, none with high-risk data
SixBreaches ==
    << Breach("Adobe", TRUE, FALSE, <<EmailAddresses>>),
       Breach("Ashley", FALSE, TRUE, << >>),
       Breach("Fling", FALSE, TRUE, << >>),
       Breach("Canva", FALSE, FALSE, <<EmailAddresses>>),
       Breach("Zynga", FALSE, FALSE, <<EmailAddresses>>),
       Breach("Trello", FALSE, FALSE, <<EmailAddresses>>) >>

\* the same six, the last with passwords among its data
SixBreachesWithPasswords ==
    [SixBreaches EXCEPT ![6] = Breach("Trello", FALSE, FALSE, <<EmailAddresses, Passwords>>)]

\* response.json() of a 200 response
Breaches(resp) ==
    CASE resp = "200"      -> << Breach("Adobe", TRUE, FALSE, <<EmailAddresses>>) >>
      [] resp = "200six"   -> SixBreaches
      [] resp = "200sixpw" -> SixBreachesWithPasswords
      [] OTHER             -> << >>

Found(resp) == resp \in {"200", "200six", "200sixpw"}

\* what check_breaches returns: 'severity' is "none" where the key is absent
BreachResult(status, error, breaches, severity) ==
    [status |-> status, error |-> error, breaches |-> breaches,
     breach_count |-> Len(breaches), severity |-> severity]

\* a refused credential taken for an identifier with no breach
CheckBreachesTakes401ForClean(resp) ==
    CASE Found(resp)       -> BreachResult("compromised", "none", Breaches(resp),
                                           CalculateSeverity(Breaches(resp)))
      [] resp = "429"      -> BreachResult("error", "Rate limit exceeded", << >>, "none")
      [] resp = "network"  -> BreachResult("error", "Network error", << >>, "none")
      [] resp = "500"      -> BreachResult("error", "API error", << >>, "none")
      [] OTHER             -> BreachResult("clean", "none", << >>, "clean")

\* the records of the response kept in the result of a server error
CheckBreachesKeepsRecordsOnError(resp) ==
    CASE Found(resp)       -> BreachResult("compromised", "none", Breaches(resp),
                                           CalculateSeverity(Breaches(resp)))
      [] resp = "200empty" -> BreachResult("clean", "none", << >>, "clean")
      [] resp = "404"      -> BreachResult("clean", "none", << >>, "clean")
      [] resp = "429"      -> BreachResult("error", "Rate limit exceeded", << >>, "none")
      [] resp = "401"      -> BreachResult("error", "Unauthorized: Invalid or inactive API key",
                                           << >>, "none")
      [] resp = "network"  -> BreachResult("error", "Network error", << >>, "none")
      [] OTHER             -> BreachResult("error", "API error", Breaches("200"), "none")

\* BreachChecker.check_breaches on a response it handles, lines 95-144
CheckBreaches(resp) ==
    CASE Found(resp)       -> BreachResult("compromised", "none", Breaches(resp),
                                           CalculateSeverity(Breaches(resp)))
      [] resp = "200empty" -> BreachResult("clean", "none", << >>, "clean")
      [] resp = "404"      -> BreachResult("clean", "none", << >>, "clean")
      [] resp = "429"      -> BreachResult("error", "Rate limit exceeded", << >>, "none")
      [] resp = "401"      -> BreachResult("error", "Unauthorized: Invalid or inactive API key",
                                           << >>, "none")
      [] resp = "network"  -> BreachResult("error", "Network error", << >>, "none")
      [] OTHER             -> BreachResult("error", "API error", << >>, "none")

\* one record of scan_results; the timestamp is left out
ScanResult(e, status, error, breaches, breach_count, severity, paste_count) ==
    [email |-> e, status |-> status, error |-> error, breaches |-> breaches,
     breach_count |-> breach_count, severity |-> severity, paste_count |-> paste_count]

\* the exposure count of the lookup left out of the result
ScanSingleEmailDropsCount(e, resp) ==
    IF Escapes(resp)
    THEN ScanResult(e, "error", "exception", << >>, 0, "none", 0)
    ELSE LET breach_result == CheckBreaches(resp) IN
         ScanResult(e, breach_result.status, breach_result.error, breach_result.breaches,
                    0,
                    IF breach_result.severity = "none" THEN "unknown"
                    ELSE breach_result.severity,
                    0)

\* BatchProcessor._scan_single_email: the combined result of lines 386-396
\* (the paste lookup finds nothing), or the result of the except branch of
\* lines 400-411, which has no severity
ScanSingleEmail(e, resp) ==
    IF Escapes(resp)
    THEN ScanResult(e, "error", "exception", << >>, 0, "none", 0)
    ELSE LET breach_result == CheckBreaches(resp) IN
         ScanResult(e, breach_result.status, breach_result.error, breach_result.breaches,
                    breach_result.breach_count,
                    IF breach_result.severity = "none" THEN "unknown"
                    ELSE breach_result.severity,
                    0)

(***************************************************************************)
(* BatchProcessor.get_batch_statistics on the copy of the results it takes  *)
(* under the lock.  processing_time, a reading of the clock, is left out.   *)
(***************************************************************************)
\* length of the longest results list the statistics are checked on
MaxResults == 3

SeverityKeys == {"clean", "low", "medium", "high", "critical", "unknown"}

\* sum(...) over a list of numbers
RECURSIVE Sum(_)
Sum(numbers) == IF numbers = << >> THEN 0 ELSE Head(numbers) + Sum(Tail(numbers))

\* len([r for r in results_copy if r['status'] == status])
CountStatus(results_copy, status) ==
    Cardinality({i \in DOMAIN results_copy : results_copy[i].status = status})

\* the names of lines 471-473 in the order the two loops meet them
RECURSIVE BreachNames(_)
BreachNames(results_copy) ==
    IF results_copy = << >> THEN << >>
    ELSE [i \in DOMAIN Head(results_copy).breaches |-> Head(results_copy).breaches[i].Name]
            \o BreachNames(Tail(results_copy))

Occurrences(names, name) == Cardinality({i \in DOMAIN names : names[i] = name})

\* breach_counts.items(): the keys in insertion order, each with its count
BreachCounts(results_copy) ==
    LET names == BreachNames(results_copy)
        keys == Dedup(names, {}, << >>)
    IN [i \in DOMAIN keys |-> <<keys[i], Occurrences(names, keys[i])>>]

\* item put into a list sorted by descending count, behind the items that
\* are not smaller: sorted(..., reverse=True) is stable
RECURSIVE InsertByCount(_, _)
InsertByCount(sorted, item) ==
    IF sorted = << >> THEN <<item>>
    ELSE IF Head(sorted)[2] >= item[2]
         THEN <<Head(sorted)>> \o InsertByCount(Tail(sorted), item)
         ELSE <<item>> \o sorted

RECURSIVE SortByCount(_, _)
SortByCount(items, sorted) ==
    IF items = << >> THEN sorted
    ELSE SortByCount(Tail(items), InsertByCount(sorted, Head(items)))

\* the list cut after 10 items left unsorted
TopBreachesUnsorted(results_copy) ==
    LET items == BreachCounts(results_copy)
    IN SubSeq(items, 1, IF Len(items) < 10 THEN Len(items) ELSE 10)

\* line 474: sorted(breach_counts.items(), key=count, reverse=True)[:10]
TopBreaches(results_copy) ==
    LET sorted == SortByCount(BreachCounts(results_copy), << >>)
    IN SubSeq(sorted, 1, IF Len(sorted) < 10 THEN Len(sorted) ELSE 10)

\* lines 463-467: the counts of result.get('severity', 'unknown') over the
\* compromised results; a key with count 0 is a key the dict does not have
SeverityBreakdown(results_copy) ==
    [k \in SeverityKeys |->
        Cardinality({i \in DOMAIN results_copy :
            /\ results_copy[i].status = "compromised"
            /\ (IF results_copy[i].severity = "none" THEN "unknown"
                ELSE results_copy[i].severity) = k})]

Stats(empty, total, clean, compromised, error, breaches, pastes, breakdown, top) ==
    [empty |-> empty, total_emails |-> total, clean_emails |-> clean,
     compromised_emails |-> compromised, error_emails |-> error,
     total_breaches |-> breaches, total_pastes |-> pastes,
     severity_breakdown |-> breakdown, top_breaches |-> top]

\* the {} of line 437
EmptyStats == Stats(TRUE, 0, 0, 0, 0, 0, 0, [k \in SeverityKeys |-> 0], << >>)

\* the error results counted as clean
GetBatchStatisticsHidesErrors(scan_results_now) ==
    LET results_copy == scan_results_now
        breach_counts == [i \in DOMAIN results_copy |-> results_copy[i].breach_count]
        paste_counts == [i \in DOMAIN results_copy |-> results_copy[i].paste_count]
    IN IF results_copy = << >> THEN EmptyStats
       ELSE Stats(FALSE, Len(results_copy),
                  CountStatus(results_copy, "clean") + CountStatus(results_copy, "error"),
                  CountStatus(results_copy, "compromised"),
                  0,
                  Sum(breach_counts),
                  Sum(paste_counts),
                  SeverityBreakdown(results_copy),
                  TopBreaches(results_copy))

\* lines 433-476
GetBatchStatistics(scan_results_now) ==
    LET results_copy == scan_results_now
        breach_counts == [i \in DOMAIN results_copy |-> results_copy[i].breach_count]
        paste_counts == [i \in DOMAIN results_copy |-> results_copy[i].paste_count]
    IN IF results_copy = << >> THEN EmptyStats
       ELSE Stats(FALSE, Len(results_copy),
                  CountStatus(results_copy, "clean"),
                  CountStatus(results_copy, "compromised"),
                  CountStatus(results_copy, "error"),
                  Sum(breach_counts),
                  Sum(paste_counts),
                  SeverityBreakdown(results_copy),
                  TopBreaches(results_copy))

\* the results the statistics are checked on: results as _scan_single_email
\* builds them, one of them with eleven sources
NamedBreaches(names) == [i \in DOMAIN names |-> Breach(names[i], FALSE, FALSE, << >>)]

ElevenNames == <<"S01", "S02", "S03", "S04", "S05", "S06", "S07", "S08", "S09", "S10", "Adobe">>

ResultPool ==
    LET Compromised(e, names, pastes) ==
            ScanResult(e, "compromised", "none", NamedBreaches(names), Len(names),
                       CalculateSeverity(NamedBreaches(names)), pastes)
    IN { ScanResult(<<"a">>, "clean", "none", << >>, 0, "clean", 2),
         ScanResult(<<"b">>, "error", "Network error", << >>, 0, "unknown", 0),
         ScanResult(<<"c">>, "error", "exception", << >>, 0, "none", 0),
         Compromised(<<"d">>, <<"Adobe", "Canva">>, 1),
         Compromised(<<"e">>, <<"Canva", "Zynga", "Adobe">>, 0),
         Compromised(<<"f">>, ElevenNames, 0),
         ScanResult(<<"g">>, "compromised", "none", SixBreachesWithPasswords, 6,
                    "critical", 0) }

ResultLists == UNION {[1..n -> ResultPool] : n \in 0..MaxResults}

\* threads of the routes that read: batch_status, batch_results, export_results
Readers == {"r1"}


(***************************************************************************)
(* State.                                                                  *)
(***************************************************************************)
VARIABLES
    scan_queue,         \* self.scan_queue: identifiers still to scan
    scan_results,       \* self.scan_results: one record per scanned identifier
    scan_progress,      \* self.scan_progress: total, completed, current_email, status, batch_id
    current_batch_id,   \* self.current_batch_id (0 is None)
    is_processing,      \* self.is_processing
    is_paused,          \* self.is_paused
    should_stop,        \* self.should_stop
    processing_thread,  \* self.processing_thread: the worker launched last (0 is None)
    lock,               \* self._lock: 0 when free, else the worker inside a multi-statement with-block
    nextId,             \* the next value uuid4 hands out: every batch id is fresh
    pc,                 \* per caller: the statement it is at ("idle" between requests)
    emails,             \* per caller: the argument emails of start_batch_scan
    unique_emails,      \* per caller: the local unique_emails of start_batch_scan
    put_i,              \* per caller: index of the next unique_emails element to put (lines 253-254)
    ret,                \* per caller: what its last call returned or raised
    callStatus,         \* per caller: the run status observed when its call was made
    pcw,                \* per worker: the statement it is at ("none" before launch, "done" after return)
    email,              \* per worker: the local email of _process_batch
    result,             \* per worker: the local result of _process_batch
    calls,              \* requests made so far; -1 where the specification does not count them
    resumed,            \* a resume took effect on a paused batch with a non-empty queue and
                        \* neither a dequeue nor a further pause or stop has followed
    stopCalled,         \* stop_batch was called on the current batch when its status was
                        \* running or paused
    enqueued,           \* the identifiers put on the current queue object, in order
    response,           \* per worker: what the remote lookup of its last item came back with
    status_view,        \* per reader: the value get_status_snapshot returned last, with what
                        \* the worker was doing when it was taken
    results_view,       \* per reader: the list it holds, a copy or the live list itself
    connected,          \* a socket client is connected and receives what the server emits
    events,             \* the events the connected client has received, in order
    lookup,             \* one call of check_breaches: where it is, what the remote service
                        \* answered, the requests made, the delay slept, what it returned
    severity_call,      \* one call of _calculate_severity: argument and return value
    stats_call,         \* one call of get_batch_statistics: the results and the return value
    timed_progress,     \* the progress record of one batch with its clock fields: total,
                        \* completed, start_time, estimated_completion, and the reading
                        \* of the clock the last update took
    scan_call,          \* one call of _scan_single_email: what the two remote lookups
                        \* answer, the configuration, the lookups invoked and the result
    stop_mark           \* what was there when stop_batch last set the stop flag: the
                        \* number of results, the completed count, the workers inside
                        \* their loop (written where the specification observes it)

shared == <<scan_queue, scan_results, scan_progress, current_batch_id,
            is_processing, is_paused, should_stop, processing_thread, lock, nextId>>
callerVars == <<pc, emails, unique_emails, put_i, ret, callStatus>>
workerVars == <<pcw, email, result>>
auxVars == <<enqueued, response, status_view, results_view>>
\* what no step of a control request or of the worker writes
callVars == <<timed_progress, scan_call>>
extVars == <<connected, lookup, severity_call, stats_call, callVars, stop_mark>>
vars == <<shared, callerVars, workerVars, resumed, stopCalled, calls, auxVars, events, extVars>>

\* `with self._lock:` can be entered
LockFree == lock = 0

NoResult == ScanResult(<< >>, "none", "none", << >>, 0, "none", 0)
NoRet == [kind |-> "none", id |-> 0]
Raised(kind) == [kind |-> kind, id |-> 0]
Returned(id) == [kind |-> "id", id |-> id]

\* the progress record of __init__
InitProgress == [total |-> 0, completed |-> 0, current_email |-> << >>,
                 status |-> "idle", batch_id |-> 0]
\* a reader that has read nothing yet
NoStatusView == [progress |-> InitProgress, in_flight |-> FALSE, counted |-> FALSE]
NoResultsView == [by |-> "none", live |-> FALSE, items |-> << >>]

\* a Retry-After header: absent, or its text
NoHeader == [present |-> FALSE, text |-> << >>]
Header(text) == [present |-> TRUE, text |-> text]

NoLookup == [pc |-> "idle", first |-> "none", second |-> "none", retry_after |-> NoHeader,
             requests |-> 0, delay |-> 0, response |-> "none",
             ret |-> BreachResult("none", "none", << >>, "none")]
NoSeverityCall == [breaches |-> << >>, ret |-> "none"]
NoStatsCall == [results |-> << >>, ret |-> EmptyStats, returned |-> FALSE]

\* a timestamp field that is None, or a moment on the clock; an estimate is
\* the moment of its computation plus num / den seconds
NoTime == [set |-> FALSE, at |-> 0, num |-> 0, den |-> 1]
Time(at) == [set |-> TRUE, at |-> at, num |-> 0, den |-> 1]
TimePlus(at, num, den) == [set |-> TRUE, at |-> at, num |-> num, den |-> den]
\* the progress record of __init__ with its clock fields, lines 207-214
InitTimedProgress ==
    [total |-> 0, completed |-> 0, start_time |-> NoTime, estimated_completion |-> NoTime,
     read |-> 0]
\* no stop has set the flag yet
NoStopMark == [set |-> FALSE, results |-> 0, completed |-> 0, workers |-> {}]
NoScanCall ==
    [pc |-> "idle", email |-> << >>, breach_resp |-> "none", paste_resp |-> "none",
     check_pastes |-> FALSE, invoked |-> << >>, ret |-> NoResult]

\* the payload of an event, reduced to what identifies it; by is the worker
\* thread that emitted it
Event(kind, by, batch_id, e, completed, status, total_results, statistics) ==
    [kind |-> kind, by |-> by, batch_id |-> batch_id, email |-> e, completed |-> completed,
     status |-> status, total_results |-> total_results, statistics |-> statistics]

ProgressEvent(w, progress) ==
    Event("scan_progress", w, progress.batch_id, progress.current_email,
          progress.completed, progress.status, 0, EmptyStats)
ResultEvent(w, res) ==
    Event("scan_result", w, 0, res.email, 0, res.status, 0, EmptyStats)
CompleteEvent(w, batch_id, total_results, statistics) ==
    Event("batch_complete", w, batch_id, << >>, 0, "none", total_results, statistics)
ErrorEvent(w) ==
    Event("scan_error", w, 0, << >>, 0, "none", 0, EmptyStats)

\* socketio.emit returns: the connected client gets the event
Emit(event) == events' = IF connected THEN Append(events, event) ELSE events

\* BatchProcessor.__init__
InitState ==
    /\ scan_queue = << >>
    /\ scan_results = << >>
    /\ scan_progress = InitProgress
    /\ current_batch_id = 0
    /\ is_processing = FALSE
    /\ is_paused = FALSE
    /\ should_stop = FALSE
    /\ processing_thread = 0
    /\ lock = 0
    /\ nextId = 1
    /\ pc = [c \in Callers |-> "idle"]
    /\ emails = [c \in Callers |-> << >>]
    /\ unique_emails = [c \in Callers |-> << >>]
    /\ put_i = [c \in Callers |-> 0]
    /\ ret = [c \in Callers |-> NoRet]
    /\ callStatus = [c \in Callers |-> "none"]
    /\ pcw = [w \in Workers |-> "none"]
    /\ email = [w \in Workers |-> << >>]
    /\ result = [w \in Workers |-> NoResult]
    /\ resumed = FALSE
    /\ stopCalled = FALSE
    /\ enqueued = << >>
    /\ response = [w \in Workers |-> "none"]
    /\ status_view = [r \in Readers |-> NoStatusView]
    /\ results_view = [r \in Readers |-> NoResultsView]
    /\ events = << >>

\* no call of the lookup client, the classifier or the statistics is observed
NoCalls ==
    /\ lookup = NoLookup
    /\ severity_call = NoSeverityCall
    /\ stats_call = NoStatsCall
    /\ timed_progress = InitTimedProgress
    /\ scan_call = NoScanCall
    /\ stop_mark = NoStopMark

Init ==
    /\ calls = 0
    /\ InitState
    /\ NoCalls
    /\ connected = FALSE

Goto(c, label) == pc' = [pc EXCEPT ![c] = label]
\* start_batch_scan returns or raises
Return(c, value) ==
    /\ pc' = [pc EXCEPT ![c] = "idle"]
    /\ ret' = [ret EXCEPT ![c] = value]
    /\ callStatus' = [callStatus EXCEPT ![c] = "none"]
\* pause_batch, resume_batch, stop_batch return None
ReturnNone(c) ==
    /\ pc' = [pc EXCEPT ![c] = "idle"]
    /\ callStatus' = [callStatus EXCEPT ![c] = "none"]
    /\ UNCHANGED ret
\* one more request, where the specification counts them
Counted ==
    /\ calls < MaxCalls
    /\ calls' = IF calls < 0 THEN calls ELSE calls + 1
\* a request thread enters a method
Call(c) ==
    /\ pc[c] = "idle"
    /\ Counted
    /\ callStatus' = [callStatus EXCEPT ![c] = scan_progress.status]
\* a call whose guard fails returns at once
NoOpCall(c) ==
    /\ pc[c] = "idle"
    /\ Counted
    /\ UNCHANGED <<pc, callStatus>>

\* start calls that have not yet drawn their batch id
StartsPending == Cardinality({c \in Callers : pc[c] \in {"s225", "s247"}})

(***************************************************************************)
(* start_batch_scan                                                        *)
(***************************************************************************)
\* a request thread enters start_batch_scan(list)
StartCall(c, list) ==
    /\ Call(c)
    /\ nextId + StartsPending <= MaxBatches
    /\ Goto(c, "s225")
    /\ emails' = [emails EXCEPT ![c] = list]
    /\ ret' = [ret EXCEPT ![c] = NoRet]
    /\ UNCHANGED <<shared, unique_emails, put_i, workerVars, resumed, stopCalled, auxVars>>
    /\ UNCHANGED <<extVars, events>>

\* the results reset moved ahead of the validation
Start225ResetsFirst(c) ==
    /\ pc[c] = "s225"
    /\ LET unique == UniqueEmails(ValidEmails(emails[c])) IN
        IF is_processing
        THEN /\ Return(c, Raised("AlreadyRunning"))
             /\ emails' = [emails EXCEPT ![c] = << >>]
             /\ UNCHANGED <<unique_emails, scan_results>>
        ELSE IF unique = << >>
        THEN /\ Return(c, Raised("NoValidInput"))
             /\ emails' = [emails EXCEPT ![c] = << >>]
             /\ scan_results' = << >>
             /\ UNCHANGED unique_emails
        ELSE /\ Goto(c, "s247")
             /\ unique_emails' = [unique_emails EXCEPT ![c] = unique]
             /\ UNCHANGED <<ret, callStatus, emails, scan_results>>
    /\ UNCHANGED <<scan_queue, scan_progress, current_batch_id, is_processing, is_paused,
                   should_stop, processing_thread, lock, nextId, put_i, workerVars,
                   resumed, stopCalled, calls, auxVars>>
    /\ UNCHANGED <<extVars, events>>

\* lines 225-244: the is_processing guard, then validation and de-duplication
\* on locals; either raise leaves every attribute alone
Start225(c) ==
    /\ pc[c] = "s225"
    /\ LET unique == UniqueEmails(ValidEmails(emails[c])) IN
        IF is_processing
        THEN /\ Return(c, Raised("AlreadyRunning"))
             /\ emails' = [emails EXCEPT ![c] = << >>]
             /\ UNCHANGED unique_emails
        ELSE IF unique = << >>
        THEN /\ Return(c, Raised("NoValidInput"))
             /\ emails' = [emails EXCEPT ![c] = << >>]
             /\ UNCHANGED unique_emails
        ELSE /\ Goto(c, "s247")
             /\ unique_emails' = [unique_emails EXCEPT ![c] = unique]
             /\ UNCHANGED <<ret, callStatus, emails>>
    /\ UNCHANGED <<shared, put_i, workerVars, resumed, stopCalled, calls, auxVars>>
    /\ UNCHANGED <<extVars, events>>

\* line 247
Start247(c) ==
    /\ pc[c] = "s247"
    /\ current_batch_id' = nextId
    /\ nextId' = nextId + 1
    /\ Goto(c, "s249")
    /\ UNCHANGED <<scan_queue, scan_results, scan_progress, is_processing, is_paused,
                   should_stop, processing_thread, lock, emails, unique_emails, put_i,
                   ret, callStatus, workerVars, resumed, stopCalled, calls, auxVars>>
    /\ UNCHANGED <<extVars, events>>

\* lines 248-249: self.scan_results is bound to a new list; whoever holds the
\* old list object holds from now on a list nobody appends to
Start249(c) ==
    /\ pc[c] = "s249"
    /\ LockFree
    /\ scan_results' = << >>
    /\ results_view' = [r \in Readers |->
            IF results_view[r].live
            THEN [results_view[r] EXCEPT !.live = FALSE, !.items = scan_results]
            ELSE results_view[r]]
    /\ Goto(c, "s250")
    /\ UNCHANGED <<scan_queue, scan_progress, current_batch_id, is_processing, is_paused,
                   should_stop, processing_thread, lock, nextId, emails, unique_emails,
                   put_i, ret, callStatus, workerVars, resumed, stopCalled, calls,
                   enqueued, response, status_view>>
    /\ UNCHANGED <<extVars, events>>

\* line 250
Start250(c) ==
    /\ pc[c] = "s250"
    /\ scan_queue' = << >>
    /\ put_i' = [put_i EXCEPT ![c] = 1]
    /\ resumed' = FALSE
    /\ stopCalled' = FALSE
    /\ enqueued' = << >>
    /\ Goto(c, "s254")
    /\ UNCHANGED <<scan_results, scan_progress, current_batch_id, is_processing, is_paused,
                   should_stop, processing_thread, lock, nextId, emails, unique_emails,
                   ret, callStatus, workerVars, calls, response, status_view, results_view>>
    /\ UNCHANGED <<extVars, events>>

\* lines 253-254: one put per step
Start254(c) ==
    /\ pc[c] = "s254"
    /\ scan_queue' = Append(scan_queue, unique_emails[c][put_i[c]])
    /\ enqueued' = Append(enqueued, unique_emails[c][put_i[c]])
    /\ IF put_i[c] < Len(unique_emails[c])
       THEN /\ put_i' = [put_i EXCEPT ![c] = put_i[c] + 1]
            /\ UNCHANGED pc
       ELSE /\ put_i' = [put_i EXCEPT ![c] = 0]
            /\ Goto(c, "s258")
    /\ UNCHANGED <<scan_results, scan_progress, current_batch_id, is_processing, is_paused,
                   should_stop, processing_thread, lock, nextId, emails, unique_emails,
                   ret, callStatus, workerVars, resumed, stopCalled, calls,
                   response, status_view, results_view>>
    /\ UNCHANGED <<extVars, events>>

\* lines 257-266
Start258(c) ==
    /\ pc[c] = "s258"
    /\ LockFree
    /\ scan_progress' = [total |-> Len(unique_emails[c]), completed |-> 0,
                         current_email |-> << >>, status |-> "running",
                         batch_id |-> current_batch_id]
    /\ Goto(c, "s269")
    /\ UNCHANGED <<scan_queue, scan_results, current_batch_id, is_processing, is_paused,
                   should_stop, processing_thread, lock, nextId, emails, unique_emails,
                   put_i, ret, callStatus, workerVars, resumed, stopCalled, calls, auxVars>>
    /\ UNCHANGED <<extVars, events>>

\* line 269
Start269(c) ==
    /\ pc[c] = "s269"
    /\ is_processing' = TRUE
    /\ Goto(c, "s270")
    /\ UNCHANGED <<scan_queue, scan_results, scan_progress, current_batch_id, is_paused,
                   should_stop, processing_thread, lock, nextId, emails, unique_emails,
                   put_i, ret, callStatus, workerVars, resumed, stopCalled, calls, auxVars>>
    /\ UNCHANGED <<extVars, events>>

\* line 270
Start270(c) ==
    /\ pc[c] = "s270"
    /\ is_paused' = FALSE
    /\ Goto(c, "s271")
    /\ UNCHANGED <<scan_queue, scan_results, scan_progress, current_batch_id, is_processing,
                   should_stop, processing_thread, lock, nextId, emails, unique_emails,
                   put_i, ret, callStatus, workerVars, resumed, stopCalled, calls, auxVars>>
    /\ UNCHANGED <<extVars, events>>

\* the stop flag of the previous batch left set
Start271KeepsStopFlag(c) ==
    /\ pc[c] = "s271"
    /\ Goto(c, "s272")
    /\ UNCHANGED <<shared, emails, unique_emails, put_i, ret, callStatus, workerVars,
                   resumed, stopCalled, calls, auxVars>>
    /\ UNCHANGED <<extVars, events>>

\* line 271
Start271(c) ==
    /\ pc[c] = "s271"
    /\ should_stop' = FALSE
    /\ Goto(c, "s272")
    /\ UNCHANGED <<scan_queue, scan_results, scan_progress, current_batch_id, is_processing,
                   is_paused, processing_thread, lock, nextId, emails, unique_emails,
                   put_i, ret, callStatus, workerVars, resumed, stopCalled, calls, auxVars>>
    /\ UNCHANGED <<extVars, events>>

\* the thread object the next Thread(...) call creates
NewWorker == CHOOSE w \in Workers : pcw[w] = "none" /\ \A v \in Workers : v < w => pcw[v] # "none"

\* lines 272-274: create and start the worker thread
Start272(c) ==
    /\ pc[c] = "s272"
    /\ processing_thread' = NewWorker
    /\ pcw' = [pcw EXCEPT ![NewWorker] = "w309"]
    /\ Goto(c, "s277")
    /\ UNCHANGED <<scan_queue, scan_results, scan_progress, current_batch_id, is_processing,
                   is_paused, should_stop, lock, nextId, emails, unique_emails, put_i,
                   ret, callStatus, email, result, resumed, stopCalled, calls, auxVars>>
    /\ UNCHANGED <<extVars, events>>

\* line 277
Start277(c) ==
    /\ pc[c] = "s277"
    /\ Return(c, Returned(current_batch_id))
    /\ unique_emails' = [unique_emails EXCEPT ![c] = << >>]
    /\ emails' = [emails EXCEPT ![c] = << >>]
    /\ UNCHANGED <<shared, put_i, workerVars, resumed, stopCalled, calls, auxVars>>
    /\ UNCHANGED <<extVars, events>>


(***************************************************************************)
(* pause_batch, resume_batch, stop_batch                                   *)
(***************************************************************************)
\* a pause or stop call of another request thread is under way
OtherControl(c) == \E d \in Callers \ {c} : pc[d] \in {"p282", "p284", "p285", "k298", "k300", "k302"}

SetStatus(value) == scan_progress' = [scan_progress EXCEPT !.status = value]

\* line 281: the guard of pause_batch
Pause281(c) ==
    /\ IF is_processing
       THEN /\ Call(c)
            /\ Goto(c, "p282")
       ELSE /\ NoOpCall(c)
    /\ resumed' = FALSE
    /\ UNCHANGED <<shared, emails, unique_emails, put_i, ret, workerVars, stopCalled, auxVars>>
    /\ UNCHANGED <<extVars, events>>

\* line 282
Pause282(c) ==
    /\ pc[c] = "p282"
    /\ is_paused' = TRUE
    /\ Goto(c, "p284")
    /\ UNCHANGED <<scan_queue, scan_results, scan_progress, current_batch_id, is_processing,
                   should_stop, processing_thread, lock, nextId, emails, unique_emails,
                   put_i, ret, callStatus, workerVars, resumed, stopCalled, calls, auxVars>>
    /\ UNCHANGED <<extVars, events>>

\* lines 283-285
Pause284(c) ==
    /\ pc[c] = "p284"
    /\ LockFree
    /\ SetStatus("paused")
    /\ Goto(c, "p285")
    /\ UNCHANGED <<scan_queue, scan_results, current_batch_id, is_processing, is_paused,
                   should_stop, processing_thread, lock, nextId, emails, unique_emails,
                   put_i, ret, callStatus, workerVars, resumed, stopCalled, calls, auxVars>>
    /\ UNCHANGED <<extVars, events>>

\* line 289, left operand: the is_processing guard of resume_batch
Resume289(c) ==
    /\ IF is_processing
       THEN /\ Call(c)
            /\ Goto(c, "r289")
            /\ UNCHANGED resumed
       ELSE /\ NoOpCall(c)
            /\ resumed' = (scan_progress.status = "paused" /\ scan_queue # << >>
                              /\ ~OtherControl(c))
    /\ UNCHANGED <<shared, emails, unique_emails, put_i, ret, workerVars, stopCalled, auxVars>>
    /\ UNCHANGED <<extVars, events>>

\* line 289, right operand: the is_paused guard
Resume289b(c) ==
    /\ pc[c] = "r289"
    /\ IF is_paused
       THEN /\ Goto(c, "r290")
       ELSE /\ Goto(c, "r293")
    /\ UNCHANGED <<shared, emails, unique_emails, put_i, ret, callStatus, workerVars, resumed, stopCalled, calls, auxVars>>
    /\ UNCHANGED <<extVars, events>>

\* line 290
Resume290(c) ==
    /\ pc[c] = "r290"
    /\ is_paused' = FALSE
    /\ Goto(c, "r292")
    /\ UNCHANGED <<scan_queue, scan_results, scan_progress, current_batch_id, is_processing,
                   should_stop, processing_thread, lock, nextId, emails, unique_emails,
                   put_i, ret, callStatus, workerVars, resumed, stopCalled, calls, auxVars>>
    /\ UNCHANGED <<extVars, events>>

\* lines 291-292
Resume292(c) ==
    /\ pc[c] = "r292"
    /\ LockFree
    /\ SetStatus("running")
    /\ Goto(c, "r293")
    /\ UNCHANGED <<scan_queue, scan_results, current_batch_id, is_processing, is_paused,
                   should_stop, processing_thread, lock, nextId, emails, unique_emails,
                   put_i, ret, callStatus, workerVars, resumed, stopCalled, calls, auxVars>>
    /\ UNCHANGED <<extVars, events>>

\* resume_batch returns
Resume293(c) ==
    /\ pc[c] = "r293"
    /\ resumed' = (callStatus[c] = "paused" /\ scan_queue # << >> /\ ~OtherControl(c))
    /\ ReturnNone(c)
    /\ UNCHANGED <<shared, emails, unique_emails, put_i, workerVars, stopCalled, calls, auxVars>>
    /\ UNCHANGED <<extVars, events>>

\* pause_batch returns
Pause285(c) ==
    /\ pc[c] = "p285"
    /\ ReturnNone(c)
    /\ UNCHANGED <<shared, emails, unique_emails, put_i, workerVars, resumed, stopCalled, calls, auxVars>>
    /\ UNCHANGED <<extVars, events>>

\* line 297: the guard of stop_batch
Stop297(c) ==
    /\ IF is_processing
       THEN /\ Call(c)
            /\ Goto(c, "k298")
       ELSE /\ NoOpCall(c)
    /\ resumed' = FALSE
    /\ stopCalled' = (stopCalled \/ scan_progress.status \in {"running", "paused"})
    /\ UNCHANGED <<shared, emails, unique_emails, put_i, ret, workerVars, auxVars>>
    /\ UNCHANGED <<extVars, events>>

\* line 298
Stop298(c) ==
    /\ pc[c] = "k298"
    /\ should_stop' = TRUE
    /\ Goto(c, "k300")
    /\ UNCHANGED <<scan_queue, scan_results, scan_progress, current_batch_id, is_processing,
                   is_paused, processing_thread, lock, nextId, emails, unique_emails,
                   put_i, ret, callStatus, workerVars, resumed, stopCalled, calls, auxVars>>
    /\ UNCHANGED <<extVars, events>>

\* lines 299-300
Stop300(c) ==
    /\ pc[c] = "k300"
    /\ LockFree
    /\ SetStatus("stopped")
    /\ Goto(c, "k302")
    /\ UNCHANGED <<scan_queue, scan_results, current_batch_id, is_processing, is_paused,
                   should_stop, processing_thread, lock, nextId, emails, unique_emails,
                   put_i, ret, callStatus, workerVars, resumed, stopCalled, calls, auxVars>>
    /\ UNCHANGED <<extVars, events>>

\* lines 302-304: join(timeout=1) returns when the worker has ended or after
\* the timeout, whichever comes first, so the call returns in either case
Stop302(c) ==
    /\ pc[c] = "k302"
    /\ ReturnNone(c)
    /\ UNCHANGED <<shared, emails, unique_emails, put_i, workerVars, resumed, stopCalled, calls, auxVars>>
    /\ UNCHANGED <<extVars, events>>


(***************************************************************************)
(* _process_batch: the worker thread                                       *)
(***************************************************************************)
At(w, label) == pcw[w] = label
Step(w, label) == pcw' = [pcw EXCEPT ![w] = label]
\* a launched worker that has not yet cleared is_processing (line 353)
Active(w) == pcw[w] \notin {"none", "w356", "w357", "w366", "w370", "done"}

\* line 309, left operand: not self.scan_queue.empty()
W309(w) ==
    /\ At(w, "w309")
    /\ IF scan_queue # << >> THEN Step(w, "w309b") ELSE Step(w, "w350")
    /\ UNCHANGED <<shared, callerVars, email, result, resumed, stopCalled, calls, auxVars>>
    /\ UNCHANGED <<extVars, events>>

\* line 309, right operand: not self.should_stop
W309b(w) ==
    /\ At(w, "w309b")
    /\ IF ~should_stop THEN Step(w, "w311") ELSE Step(w, "w350")
    /\ UNCHANGED <<shared, callerVars, email, result, resumed, stopCalled, calls, auxVars>>
    /\ UNCHANGED <<extVars, events>>

\* the pause wait left out
W311SkipsPauseWait(w) ==
    /\ At(w, "w311")
    /\ Step(w, "w314")
    /\ UNCHANGED <<shared, callerVars, email, result, resumed, stopCalled, calls, auxVars>>
    /\ UNCHANGED <<extVars, events>>

\* line 311, left operand: self.is_paused
W311(w) ==
    /\ At(w, "w311")
    /\ IF is_paused THEN Step(w, "w311b") ELSE Step(w, "w314")
    /\ UNCHANGED <<shared, callerVars, email, result, resumed, stopCalled, calls, auxVars>>
    /\ UNCHANGED <<extVars, events>>

\* line 311, right operand, and the sleep of line 312
W311b(w) ==
    /\ At(w, "w311b")
    /\ IF ~should_stop THEN Step(w, "w311") ELSE Step(w, "w314")
    /\ UNCHANGED <<shared, callerVars, email, result, resumed, stopCalled, calls, auxVars>>
    /\ UNCHANGED <<extVars, events>>

\* the stop check after the pause wait left out
W314SkipsStopCheck(w) ==
    /\ At(w, "w314")
    /\ Step(w, "w318")
    /\ UNCHANGED <<shared, callerVars, email, result, resumed, stopCalled, calls, auxVars>>
    /\ UNCHANGED <<extVars, events>>

\* lines 314-315
W314(w) ==
    /\ At(w, "w314")
    /\ IF should_stop THEN Step(w, "w350") ELSE Step(w, "w318")
    /\ UNCHANGED <<shared, callerVars, email, result, resumed, stopCalled, calls, auxVars>>
    /\ UNCHANGED <<extVars, events>>

\* the identifier read and left on the queue
W318LeavesItemQueued(w) ==
    /\ At(w, "w318")
    /\ IF scan_queue # << >>
       THEN /\ email' = [email EXCEPT ![w] = Head(scan_queue)]
            /\ resumed' = FALSE
            /\ Step(w, "w320")
       ELSE /\ Step(w, "w350")
            /\ UNCHANGED <<email, resumed>>
    /\ UNCHANGED <<scan_queue, scan_results, scan_progress, current_batch_id, is_processing,
                   is_paused, should_stop, processing_thread, lock, nextId, callerVars, result,
                   stopCalled, calls, auxVars>>
    /\ UNCHANGED <<extVars, events>>

\* line 318: get_nowait; Empty leaves the loop (lines 343-344)
W318(w) ==
    /\ At(w, "w318")
    /\ IF scan_queue # << >>
       THEN /\ email' = [email EXCEPT ![w] = Head(scan_queue)]
            /\ scan_queue' = Tail(scan_queue)
            /\ resumed' = FALSE
            /\ Step(w, "w320")
       ELSE /\ Step(w, "w350")
            /\ UNCHANGED <<email, scan_queue, resumed>>
    /\ UNCHANGED <<scan_results, scan_progress, current_batch_id, is_processing, is_paused,
                   should_stop, processing_thread, lock, nextId, callerVars, result,
                   stopCalled, calls, auxVars>>
    /\ UNCHANGED <<extVars, events>>

\* lines 319-320
W320(w) ==
    /\ At(w, "w320")
    /\ LockFree
    /\ scan_progress' = [scan_progress EXCEPT !.current_email = email[w]]
    /\ Step(w, "w323")
    /\ UNCHANGED <<scan_queue, scan_results, current_batch_id, is_processing, is_paused,
                   should_stop, processing_thread, lock, nextId, callerVars, email, result,
                   resumed, stopCalled, calls, auxVars>>
    /\ UNCHANGED <<extVars, events>>

\* line 323: emit scan_progress with the progress record itself, no lock taken
W323(w) ==
    /\ At(w, "w323")
    /\ Step(w, "w326")
    /\ UNCHANGED <<shared, callerVars, email, result, resumed, stopCalled, calls, auxVars>>
    /\ UNCHANGED extVars
    /\ Emit(ProgressEvent(w, scan_progress))

\* line 326: the remote lookup comes back with resp and _scan_single_email
\* returns a result for the identifier
W326(w, resp) ==
    /\ At(w, "w326")
    /\ response' = [response EXCEPT ![w] = resp]
    /\ result' = [result EXCEPT ![w] = ScanSingleEmail(email[w], resp)]
    /\ Step(w, "w328")
    /\ UNCHANGED <<shared, callerVars, email, resumed, stopCalled, calls,
                   enqueued, status_view, results_view>>
    /\ UNCHANGED <<extVars, events>>

\* lines 327-328
W328(w) ==
    /\ At(w, "w328")
    /\ LockFree
    /\ scan_results' = Append(scan_results, result[w])
    /\ Step(w, "w332")
    /\ UNCHANGED <<scan_queue, scan_progress, current_batch_id, is_processing, is_paused,
                   should_stop, processing_thread, lock, nextId, callerVars, email, result,
                   resumed, stopCalled, calls, auxVars>>
    /\ UNCHANGED <<extVars, events>>

\* the count raised by two
W332CountsTwice(w) ==
    /\ At(w, "w332")
    /\ LockFree
    /\ scan_progress' = [scan_progress EXCEPT !.completed = @ + 2]
    /\ Step(w, "w336")
    /\ UNCHANGED <<scan_queue, scan_results, current_batch_id, is_processing, is_paused,
                   should_stop, processing_thread, lock, nextId, callerVars, email, result,
                   resumed, stopCalled, calls, auxVars>>
    /\ UNCHANGED <<extVars, events>>

\* lines 331-333
W332(w) ==
    /\ At(w, "w332")
    /\ LockFree
    /\ scan_progress' = [scan_progress EXCEPT !.completed = @ + 1]
    /\ Step(w, "w336")
    /\ UNCHANGED <<scan_queue, scan_results, current_batch_id, is_processing, is_paused,
                   should_stop, processing_thread, lock, nextId, callerVars, email, result,
                   resumed, stopCalled, calls, auxVars>>
    /\ UNCHANGED <<extVars, events>>

\* line 336: emit scan_result
W336(w) ==
    /\ At(w, "w336")
    /\ Step(w, "w337")
    /\ UNCHANGED <<shared, callerVars, email, result, resumed, stopCalled, calls, auxVars>>
    /\ UNCHANGED extVars
    /\ Emit(ResultEvent(w, result[w]))

\* line 337: emit scan_progress with get_status_snapshot()
W337(w) ==
    /\ At(w, "w337")
    /\ LockFree
    /\ Step(w, "w340")
    /\ UNCHANGED <<shared, callerVars, email, result, resumed, stopCalled, calls, auxVars>>
    /\ UNCHANGED extVars
    /\ Emit(ProgressEvent(w, scan_progress))

\* line 340: the test of the queue; with nothing left, back to the loop condition
W340(w) ==
    /\ At(w, "w340")
    /\ IF scan_queue # << >> THEN Step(w, "w341") ELSE Step(w, "w309")
    /\ UNCHANGED <<shared, callerVars, email, result, resumed, stopCalled, calls, auxVars>>
    /\ UNCHANGED <<extVars, events>>

\* line 341: time.sleep(self.rate_limit_delay) returns, back to the loop condition
W341(w) ==
    /\ At(w, "w341")
    /\ Step(w, "w309")
    /\ UNCHANGED <<shared, callerVars, email, result, resumed, stopCalled, calls, auxVars>>
    /\ UNCHANGED <<extVars, events>>

\* the terminal status completed whatever the stop flag says
W351ReportsCompleted(w) ==
    /\ At(w, "w350")
    /\ LockFree
    /\ lock' = w
    /\ SetStatus("completed")
    /\ Step(w, "w352")
    /\ UNCHANGED <<scan_queue, scan_results, current_batch_id, is_processing, is_paused,
                   should_stop, processing_thread, nextId, callerVars, email, result,
                   resumed, stopCalled, calls, auxVars>>
    /\ UNCHANGED <<extVars, events>>

\* lines 350-351: enter the lock and set the terminal status
W351(w) ==
    /\ At(w, "w350")
    /\ LockFree
    /\ lock' = w
    /\ SetStatus(IF ~should_stop THEN "completed" ELSE "stopped")
    /\ Step(w, "w352")
    /\ UNCHANGED <<scan_queue, scan_results, current_batch_id, is_processing, is_paused,
                   should_stop, processing_thread, nextId, callerVars, email, result,
                   resumed, stopCalled, calls, auxVars>>
    /\ UNCHANGED <<extVars, events>>

\* line 352
W352(w) ==
    /\ At(w, "w352")
    /\ scan_progress' = [scan_progress EXCEPT !.current_email = << >>]
    /\ Step(w, "w353")
    /\ UNCHANGED <<scan_queue, scan_results, current_batch_id, is_processing, is_paused,
                   should_stop, processing_thread, lock, nextId, callerVars, email, result,
                   resumed, stopCalled, calls, auxVars>>
    /\ UNCHANGED <<extVars, events>>

\* the lock kept over the emits that follow
W353KeepsLock(w) ==
    /\ At(w, "w353")
    /\ is_processing' = FALSE
    /\ Step(w, "w356")
    /\ UNCHANGED <<scan_queue, scan_results, scan_progress, current_batch_id, is_paused,
                   should_stop, processing_thread, lock, nextId, callerVars, email, result,
                   resumed, stopCalled, calls, auxVars>>
    /\ UNCHANGED <<extVars, events>>

\* line 353: clear is_processing and leave the lock
W353(w) ==
    /\ At(w, "w353")
    /\ is_processing' = FALSE
    /\ lock' = 0
    /\ Step(w, "w356")
    /\ UNCHANGED <<scan_queue, scan_results, scan_progress, current_batch_id, is_paused,
                   should_stop, processing_thread, nextId, callerVars, email, result,
                   resumed, stopCalled, calls, auxVars>>
    /\ UNCHANGED <<extVars, events>>

\* line 356: emit the final scan_progress with get_status_snapshot()
W356(w) ==
    /\ At(w, "w356")
    /\ LockFree
    /\ Step(w, "w357")
    /\ UNCHANGED <<shared, callerVars, email, result, resumed, stopCalled, calls, auxVars>>
    /\ UNCHANGED extVars
    /\ Emit(ProgressEvent(w, scan_progress))

\* lines 357-363: emit batch_complete and return.  The payload reads
\* self.current_batch_id (line 358), then the results and the statistics, each
\* in a lock block of its own (lines 359-360); the three reads are one step here
W357(w) ==
    /\ At(w, "w357")
    /\ LockFree
    /\ Step(w, "done")
    /\ email' = [email EXCEPT ![w] = << >>]
    /\ result' = [result EXCEPT ![w] = NoResult]
    /\ response' = [response EXCEPT ![w] = "none"]
    /\ UNCHANGED <<shared, callerVars, resumed, stopCalled, calls,
                   enqueued, status_view, results_view>>
    /\ UNCHANGED extVars
    /\ Emit(CompleteEvent(w, current_batch_id, Len(scan_results),
                          GetBatchStatistics(scan_results)))

(***************************************************************************)
(* _process_batch: exceptions.  Inside the loop body only socketio.emit    *)
(* can raise (the lookup returns a result whatever happens, lines 400-411);*)
(* the inner handler of lines 345-347 catches it.  After the loop the two  *)
(* emits of lines 356-361 can raise into the handler of lines 365-370.     *)
(***************************************************************************)
\* line 323 raises
W323Raises(w) ==
    /\ At(w, "w323")
    /\ Step(w, "w346")
    /\ UNCHANGED <<shared, callerVars, email, result, resumed, stopCalled, calls, auxVars>>
    /\ UNCHANGED <<extVars, events>>

\* line 336 raises
W336Raises(w) ==
    /\ At(w, "w336")
    /\ Step(w, "w346")
    /\ UNCHANGED <<shared, callerVars, email, result, resumed, stopCalled, calls, auxVars>>
    /\ UNCHANGED <<extVars, events>>

\* line 337 raises, after get_status_snapshot() has returned
W337Raises(w) ==
    /\ At(w, "w337")
    /\ LockFree
    /\ Step(w, "w346")
    /\ UNCHANGED <<shared, callerVars, email, result, resumed, stopCalled, calls, auxVars>>
    /\ UNCHANGED <<extVars, events>>

\* lines 345-347: log the exception and continue with the loop condition
W346(w) ==
    /\ At(w, "w346")
    /\ Step(w, "w309")
    /\ UNCHANGED <<shared, callerVars, email, result, resumed, stopCalled, calls, auxVars>>
    /\ UNCHANGED <<extVars, events>>

\* line 356 raises, after get_status_snapshot() has returned
W356Raises(w) ==
    /\ At(w, "w356")
    /\ LockFree
    /\ Step(w, "w366")
    /\ UNCHANGED <<shared, callerVars, email, result, resumed, stopCalled, calls, auxVars>>
    /\ UNCHANGED <<extVars, events>>

\* lines 357-361 raise, after the snapshots have been taken
W357Raises(w) ==
    /\ At(w, "w357")
    /\ LockFree
    /\ Step(w, "w366")
    /\ UNCHANGED <<shared, callerVars, email, result, resumed, stopCalled, calls, auxVars>>
    /\ UNCHANGED <<extVars, events>>

\* lines 366-368: log, enter the lock and set status error
W368(w) ==
    /\ At(w, "w366")
    /\ LockFree
    /\ lock' = w
    /\ SetStatus("error")
    /\ Step(w, "w369")
    /\ UNCHANGED <<scan_queue, scan_results, current_batch_id, is_processing, is_paused,
                   should_stop, processing_thread, nextId, callerVars, email, result,
                   resumed, stopCalled, calls, auxVars>>
    /\ UNCHANGED <<extVars, events>>

\* line 369: clear is_processing and leave the lock
W369(w) ==
    /\ At(w, "w369")
    /\ is_processing' = FALSE
    /\ lock' = 0
    /\ Step(w, "w370")
    /\ UNCHANGED <<scan_queue, scan_results, scan_progress, current_batch_id, is_paused,
                   should_stop, processing_thread, nextId, callerVars, email, result,
                   resumed, stopCalled, calls, auxVars>>
    /\ UNCHANGED <<extVars, events>>

\* line 370: emit scan_error and return; if the emit raises the thread ends
\* with the exception, which changes nothing else
W370(w) ==
    /\ At(w, "w370")
    /\ Step(w, "done")
    /\ email' = [email EXCEPT ![w] = << >>]
    /\ result' = [result EXCEPT ![w] = NoResult]
    /\ response' = [response EXCEPT ![w] = "none"]
    /\ UNCHANGED <<shared, callerVars, resumed, stopCalled, calls,
                   enqueued, status_view, results_view>>
    /\ UNCHANGED extVars
    /\ Emit(ErrorEvent(w))

(***************************************************************************)
(* Readers: get_status_snapshot, get_results_snapshot and the route        *)
(* export_results                                                          *)
(***************************************************************************)
\* worker w has taken an item off the queue and not yet counted it (lines 318-332)
InFlight(w) == pcw[w] \in {"w320", "w323", "w326", "w328", "w332"}

\* worker w has counted its item (line 332) and the progress record still names it
FinishedItemShown(w) ==
    /\ pcw[w] \in {"w336", "w337", "w340", "w341", "w309", "w309b", "w311", "w311b",
                    "w314", "w318", "w350"}
    /\ email[w] # << >>
    /\ scan_progress.current_email = email[w]

\* lines 478-480: dict(self.scan_progress) under the lock
StatusRead(r) ==
    /\ LockFree
    /\ status_view' = [status_view EXCEPT ![r] =
            [progress |-> scan_progress,
             in_flight |-> \E w \in Workers : InFlight(w),
             counted |-> \E w \in Workers : FinishedItemShown(w)]]
    /\ UNCHANGED <<shared, callerVars, workerVars, resumed, stopCalled, calls,
                   enqueued, response, results_view>>
    /\ UNCHANGED <<extVars, events>>

\* the list itself returned, not a copy
ResultsReadReturnsLiveList(r) ==
    /\ LockFree
    /\ results_view' = [results_view EXCEPT ![r] =
            [by |-> "results", live |-> TRUE, items |-> << >>]]
    /\ UNCHANGED <<shared, callerVars, workerVars, resumed, stopCalled, calls,
                   enqueued, response, status_view>>
    /\ UNCHANGED <<extVars, events>>

\* lines 482-484: list(self.scan_results) under the lock
ResultsRead(r) ==
    /\ LockFree
    /\ results_view' = [results_view EXCEPT ![r] =
            [by |-> "results", live |-> FALSE, items |-> scan_results]]
    /\ UNCHANGED <<shared, callerVars, workerVars, resumed, stopCalled, calls,
                   enqueued, response, status_view>>
    /\ UNCHANGED <<extVars, events>>

\* line 591: export_results takes batch_processor.scan_results itself, with
\* no lock, and works on that list
Export591(r) ==
    /\ results_view' = [results_view EXCEPT ![r] =
            [by |-> "export", live |-> TRUE, items |-> << >>]]
    /\ UNCHANGED <<shared, callerVars, workerVars, resumed, stopCalled, calls,
                   enqueued, response, status_view>>
    /\ UNCHANGED <<extVars, events>>

\* lines 433-476: get_batch_statistics copies the results under the lock and
\* computes on the copy
StatisticsRead ==
    /\ LockFree
    /\ stats_call' = [results |-> scan_results, ret |-> GetBatchStatistics(scan_results),
                      returned |-> TRUE]
    /\ UNCHANGED <<shared, callerVars, workerVars, resumed, stopCalled, calls, auxVars>>
    /\ UNCHANGED <<connected, lookup, severity_call, callVars, stop_mark, events>>

\* the list reader r holds, as r sees it now
View(r) == IF results_view[r].live THEN scan_results ELSE results_view[r].items

(***************************************************************************)
(* BreachChecker.check_breaches with _get_with_retry: one call, the remote  *)
(* service answering each request with one of Responses                     *)
(***************************************************************************)
Digits == <<"0","1","2","3","4","5","6","7","8","9">>
DigitValue(ch) == (CHOOSE i \in DOMAIN Digits : Digits[i] = ch) - 1

RECURSIVE DecimalValue(_, _)
DecimalValue(digits, acc) ==
    IF digits = << >> THEN acc
    ELSE DecimalValue(Tail(digits), 10 * acc + DigitValue(Head(digits)))

\* int(text): surrounding whitespace, an optional sign, then digits; anything
\* else raises ValueError
ParseInt(text) ==
    LET t == Strip(text)
        signed == t # << >> /\ Head(t) \in {"+", "-"}
        digits == IF signed THEN Tail(t) ELSE t
        ok == digits # << >> /\ \A i \in DOMAIN digits : digits[i] \in DigitChars
    IN [ok |-> ok,
        value |-> IF ~ok THEN 0
                  ELSE IF signed /\ Head(t) = "-" THEN 0 - DecimalValue(digits, 0)
                  ELSE DecimalValue(digits, 0)]

Min(a, b) == IF a < b THEN a ELSE b
Max(a, b) == IF a > b THEN a ELSE b

\* the advised delay taken as it comes
RetryDelayUnclamped(retry_after) ==
    IF ~retry_after.present \/ retry_after.text = << >> THEN 60
    ELSE IF ~ParseInt(retry_after.text).ok THEN 60
    ELSE ParseInt(retry_after.text).value

\* lines 78-83
RetryDelay(retry_after) ==
    IF ~retry_after.present \/ retry_after.text = << >> THEN 60
    ELSE IF ~ParseInt(retry_after.text).ok THEN 60
    ELSE Max(1, Min(ParseInt(retry_after.text).value, 60))

\* the Retry-After headers a 429 response may carry
RetryAfterPool ==
    { NoHeader, Header(<< >>), Header(<<"0">>), Header(<<"1">>), Header(<<"7">>),
      Header(<<" ","3","0"," ">>), Header(<<"6","0">>), Header(<<"6","1">>),
      Header(<<"1","2","0">>), Header(<<"-","5">>), Header(<<"+","9">>),
      Header(<<"2",".","5">>), Header(<<"s","o","o","n">>) }

\* lines 92-93: check_breaches is called and calls _get_with_retry
Lookup93 ==
    /\ lookup.pc = "idle"
    /\ lookup' = [lookup EXCEPT !.pc = "l76"]
    /\ UNCHANGED <<shared, callerVars, workerVars, resumed, stopCalled, calls, auxVars,
                   events, connected, severity_call, stats_call, callVars, stop_mark>>

\* lines 76-77 and 87: the first request; a response other than 429 is
\* returned, an exception of session.get leaves _get_with_retry
Get76(resp, header) ==
    /\ lookup.pc = "l76"
    /\ resp = "429" \/ header = NoHeader
    /\ lookup' = [lookup EXCEPT !.first = resp, !.requests = @ + 1,
                                !.retry_after = header,
                                !.response = IF resp = "429" THEN "none" ELSE resp,
                                !.pc = IF resp = "429" THEN "l78" ELSE "l95"]
    /\ UNCHANGED <<shared, callerVars, workerVars, resumed, stopCalled, calls, auxVars,
                   events, connected, severity_call, stats_call, callVars, stop_mark>>

\* lines 78-85: the delay, and the sleep for it
Sleep85 ==
    /\ lookup.pc = "l78"
    /\ lookup' = [lookup EXCEPT !.delay = RetryDelay(lookup.retry_after), !.pc = "l86"]
    /\ UNCHANGED <<shared, callerVars, workerVars, resumed, stopCalled, calls, auxVars,
                   events, connected, severity_call, stats_call, callVars, stop_mark>>

\* line 86: the request reissued once; whatever comes back is returned
Get86(resp) ==
    /\ lookup.pc = "l86"
    /\ lookup' = [lookup EXCEPT !.second = resp, !.requests = @ + 1,
                                !.response = resp, !.pc = "l95"]
    /\ UNCHANGED <<shared, callerVars, workerVars, resumed, stopCalled, calls, auxVars,
                   events, connected, severity_call, stats_call, callVars, stop_mark>>

\* lines 95-144: the result for the response; an exception that is not a
\* RequestException leaves check_breaches
Check95 ==
    /\ lookup.pc = "l95"
    /\ lookup' = [lookup EXCEPT
            !.ret = IF Escapes(lookup.response)
                    THEN BreachResult("raised", "exception", << >>, "none")
                    ELSE CheckBreaches(lookup.response),
            !.pc = "done"]
    /\ UNCHANGED <<shared, callerVars, workerVars, resumed, stopCalled, calls, auxVars,
                   events, connected, severity_call, stats_call, callVars, stop_mark>>

(***************************************************************************)
(* One call of _calculate_severity and one of get_batch_statistics          *)
(***************************************************************************)
\* lines 175-198
Severity175 ==
    /\ severity_call.ret = "none"
    /\ severity_call' = [severity_call EXCEPT !.ret = CalculateSeverity(severity_call.breaches)]
    /\ UNCHANGED <<shared, callerVars, workerVars, resumed, stopCalled, calls, auxVars,
                   events, connected, lookup, stats_call, callVars, stop_mark>>

\* lines 433-476, on the results list as it is when the lock is taken
Statistics435 ==
    /\ ~stats_call.returned
    /\ stats_call' = [stats_call EXCEPT !.ret = GetBatchStatistics(stats_call.results),
                                       !.returned = TRUE]
    /\ UNCHANGED <<shared, callerVars, workerVars, resumed, stopCalled, calls, auxVars,
                   events, connected, lookup, severity_call, callVars, stop_mark>>

(***************************************************************************)
(* One call of _scan_single_email with both remote lookups.  A paste        *)
(* response is what check_pastes gets back from _get_with_retry: a status   *)
(* code, a RequestException ("network") or any other exception ("fault",    *)
(* such as response.json() or len() raising on the body of a 200 response). *)
(***************************************************************************)
PasteResponses == {"200", "200empty", "404", "429", "401", "500", "network", "fault"}

\* the paste responses that are a failure of the lookup
FailedPasteResponses == {"429", "401", "500", "network", "fault"}

\* BreachChecker.check_pastes on a response it handles, lines 146-173: the
\* number of pastes of the dict it returns; a 200 response lists two pastes
CheckPastes(resp) == IF resp = "200" THEN 2 ELSE 0

\* line 378: check_breaches is invoked; an exception it lets escape goes to
\* the handler of line 398
Scan378 ==
    /\ scan_call.pc = "s378"
    /\ scan_call' = [scan_call EXCEPT
            !.invoked = Append(@, "check_breaches"),
            !.pc = IF Escapes(scan_call.breach_resp) THEN "s398" ELSE "s381"]
    /\ UNCHANGED <<shared, callerVars, workerVars, resumed, stopCalled, calls, auxVars,
                   events, connected, lookup, severity_call, stats_call, timed_progress, stop_mark>>

\* lines 381-383: check_pastes is invoked if the configuration enables it; it
\* catches a RequestException only
Scan382 ==
    /\ scan_call.pc = "s381"
    /\ scan_call' =
            IF scan_call.check_pastes
            THEN [scan_call EXCEPT
                    !.invoked = Append(@, "check_pastes"),
                    !.pc = IF scan_call.paste_resp = "fault" THEN "s398" ELSE "s386"]
            ELSE [scan_call EXCEPT !.pc = "s386"]
    /\ UNCHANGED <<shared, callerVars, workerVars, resumed, stopCalled, calls, auxVars,
                   events, connected, lookup, severity_call, stats_call, timed_progress, stop_mark>>

\* lines 386-398: the combined result
Scan386 ==
    /\ scan_call.pc = "s386"
    /\ LET breach_result == CheckBreaches(scan_call.breach_resp)
           paste_count == IF scan_call.check_pastes THEN CheckPastes(scan_call.paste_resp)
                          ELSE 0
       IN scan_call' = [scan_call EXCEPT
            !.ret = ScanResult(scan_call.email, breach_result.status, breach_result.error,
                               breach_result.breaches, breach_result.breach_count,
                               IF breach_result.severity = "none" THEN "unknown"
                               ELSE breach_result.severity,
                               paste_count),
            !.pc = "done"]
    /\ UNCHANGED <<shared, callerVars, workerVars, resumed, stopCalled, calls, auxVars,
                   events, connected, lookup, severity_call, stats_call, timed_progress, stop_mark>>

\* lines 400-411: the result of the except branch
Scan400 ==
    /\ scan_call.pc = "s398"
    /\ scan_call' = [scan_call EXCEPT
            !.ret = ScanResult(scan_call.email, "error", "exception", << >>, 0, "none", 0),
            !.pc = "done"]
    /\ UNCHANGED <<shared, callerVars, workerVars, resumed, stopCalled, calls, auxVars,
                   events, connected, lookup, severity_call, stats_call, timed_progress, stop_mark>>

(***************************************************************************)
(* The clock fields of the progress record.  datetime.now() is the wall     *)
(* clock of the host in local time: a reading is any moment of Clock, not   *)
(* necessarily later than the reading before.  isoformat() and              *)
(* fromisoformat() (lines 262, 419) write and read the same moment.         *)
(***************************************************************************)
\* the moments of the clock
MaxClock == 3
Clock == 0..MaxClock
\* the largest number of identifiers of a timed batch
MaxTotal == 3

\* BatchProcessor._update_estimated_completion, lines 413-426: now is the
\* reading of line 419, later the reading of line 425; rate = completed /
\* elapsed is positive exactly when elapsed is, and remaining / rate is
\* remaining * elapsed / completed
UpdateEstimatedCompletion(progress, now, later) ==
    IF progress.completed > 0 /\ progress.start_time.set
    THEN LET elapsed == now - progress.start_time.at
             remaining == progress.total - progress.completed
         IN IF elapsed > 0
            THEN [progress EXCEPT !.estimated_completion =
                        TimePlus(later, remaining * elapsed, progress.completed),
                                  !.read = now]
            ELSE [progress EXCEPT !.read = now]
    ELSE progress

\* lines 257-266: the progress record of a new batch of total identifiers
Eta258(total, now) ==
    /\ timed_progress.completed = timed_progress.total
    /\ timed_progress' = [total |-> total, completed |-> 0, start_time |-> Time(now),
                          estimated_completion |-> NoTime, read |-> now]
    /\ UNCHANGED <<shared, callerVars, workerVars, resumed, stopCalled, calls, auxVars,
                   events, connected, lookup, severity_call, stats_call, scan_call, stop_mark>>

\* lines 331-333: one more item completed, and the estimate updated
Eta333(now, later) ==
    /\ timed_progress.completed < timed_progress.total
    /\ timed_progress' =
            UpdateEstimatedCompletion(
                [timed_progress EXCEPT !.completed = @ + 1], now, later)
    /\ UNCHANGED <<shared, callerVars, workerVars, resumed, stopCalled, calls, auxVars,
                   events, connected, lookup, severity_call, stats_call, scan_call, stop_mark>>

(***************************************************************************)
(* Specifications                                                          *)
(***************************************************************************)
CallerCall(c, lists) ==
    \/ \E list \in lists : StartCall(c, list)
    \/ Pause281(c)
    \/ Resume289(c)
    \/ Stop297(c)

\* the steps of a request thread inside start_batch_scan
StartStep(c) ==
    \/ Start225(c) \/ Start247(c) \/ Start249(c) \/ Start250(c) \/ Start254(c)
    \/ Start258(c) \/ Start269(c) \/ Start270(c) \/ Start271(c) \/ Start272(c)
    \/ Start277(c)

\* the steps of a request thread inside stop_batch
StopStep(c) == Stop298(c) \/ Stop300(c) \/ Stop302(c)

CallerStep(c) ==
    \/ StartStep(c)
    \/ Pause282(c) \/ Pause284(c) \/ Pause285(c)
    \/ Resume289b(c) \/ Resume290(c) \/ Resume292(c) \/ Resume293(c)
    \/ StopStep(c)

WorkerStep(w, responses) ==
    \/ W309(w) \/ W309b(w) \/ W311(w) \/ W311b(w) \/ W314(w) \/ W318(w)
    \/ W320(w) \/ W323(w)
    \/ \E resp \in responses : W326(w, resp)
    \/ W328(w) \/ W332(w) \/ W336(w) \/ W337(w) \/ W340(w) \/ W341(w)
    \/ W351(w) \/ W352(w) \/ W353(w) \/ W356(w) \/ W357(w)

\* request threads run concurrently with each other and with the workers;
\* a behaviour holds at most MaxCalls requests
Next ==
    \/ \E c \in Callers : CallerCall(c, RaceLists) \/ CallerStep(c)
    \/ \E w \in Workers : WorkerStep(w, {"404"})

Spec == Init /\ [][Next]_vars

\* one request at a time: the calls are serialized and not counted, the
\* worker runs beside them
InitSeq ==
    /\ calls = -1
    /\ InitState
    /\ NoCalls
    /\ connected = FALSE

NextSeq ==
    \/ CallerCall("c1", InputLists) \/ CallerStep("c1")
    \/ \E w \in Workers : WorkerStep(w, {"404"})

SpecSeq == InitSeq /\ [][NextSeq]_vars

\* the scheduler runs every started thread: a worker that can take a step takes
\* one, and a request inside a method runs on to its return; nothing obliges a
\* client to send a request
Fairness ==
    /\ \A w \in Workers : WF_vars(WorkerStep(w, {"404"}))
    /\ WF_vars(CallerStep("c1"))

\* one request at a time, as SpecSeq, over batches of two identifiers
NextLive ==
    \/ CallerCall("c1", LiveLists) \/ CallerStep("c1")
    \/ \E w \in Workers : WorkerStep(w, {"404"})

SpecLive == InitSeq /\ [][NextLive]_vars /\ Fairness

\* the steps of a worker that raise, and the handlers
WorkerFault(w) ==
    \/ W323Raises(w) \/ W336Raises(w) \/ W337Raises(w) \/ W346(w)
    \/ W356Raises(w) \/ W357Raises(w) \/ W368(w) \/ W369(w) \/ W370(w)

\* the lookups of the specification with exceptions: found nothing, refused, raised
FaultResponses == {"404", "401", "fault"}

\* one request at a time, as SpecSeq, over one batch, with lookups that fail
\* and emits that raise
NextFault ==
    \/ \E list \in LiveLists : nextId = 1 /\ StartCall("c1", list)
    \/ Pause281("c1") \/ Resume289("c1") \/ Stop297("c1")
    \/ CallerStep("c1")
    \/ \E w \in Workers : WorkerStep(w, FaultResponses) \/ WorkerFault(w)

SpecFault == InitSeq /\ [][NextFault]_vars

\* the list of the specification with readers
ReadLists == { << <<"a","@","x",".","c","o">>, <<"b","@","x",".","c","o">> >> }

\* one request at a time, as SpecSeq, and a reader of the progress record
\* beside it
NextRead ==
    \/ CallerCall("c1", ReadLists) \/ CallerStep("c1")
    \/ \E w \in Workers : WorkerStep(w, {"404"})
    \/ \E r \in Readers : StatusRead(r)

SpecRead == InitSeq /\ [][NextRead]_vars

\* one request at a time, as SpecSeq, and a reader of the results beside it
NextResults ==
    \/ CallerCall("c1", ReadLists) \/ CallerStep("c1")
    \/ \E w \in Workers : WorkerStep(w, {"404"})
    \/ \E r \in Readers : ResultsRead(r) \/ Export591(r)

SpecResults == InitSeq /\ [][NextResults]_vars

\* the classifier on every list of at most MaxBreaches records of the pool
InitSeverity ==
    /\ calls = -1
    /\ InitState
    /\ connected = FALSE
    /\ timed_progress = InitTimedProgress
    /\ scan_call = NoScanCall
    /\ stop_mark = NoStopMark
    /\ lookup = NoLookup
    /\ stats_call = NoStatsCall
    /\ \E breaches \in BreachLists : severity_call = [breaches |-> breaches, ret |-> "none"]

SpecSeverity == InitSeverity /\ [][Severity175]_vars

\* the statistics on every list of at most MaxResults results of the pool
InitStatistics ==
    /\ calls = -1
    /\ InitState
    /\ connected = FALSE
    /\ timed_progress = InitTimedProgress
    /\ scan_call = NoScanCall
    /\ stop_mark = NoStopMark
    /\ lookup = NoLookup
    /\ severity_call = NoSeverityCall
    /\ \E results \in ResultLists :
           stats_call = [results |-> results, ret |-> EmptyStats, returned |-> FALSE]

SpecStatistics == InitStatistics /\ [][Statistics435]_vars

\* one call of check_breaches, the remote service free in what it answers
NextLookup ==
    \/ Lookup93
    \/ \E resp \in Responses : \E header \in RetryAfterPool : Get76(resp, header)
    \/ Sleep85
    \/ \E resp \in Responses : Get86(resp)
    \/ Check95

SpecLookup == InitSeq /\ [][NextLookup]_vars

\* a client is connected from the beginning
InitConnected ==
    /\ calls = -1
    /\ InitState
    /\ NoCalls
    /\ connected = TRUE

\* the steps of a worker nobody pauses
UnpausedWorkerStep(w, responses) ==
    \/ W309(w) \/ W309b(w) \/ W311(w) \/ W314(w) \/ W318(w)
    \/ W320(w) \/ W323(w)
    \/ \E resp \in responses : W326(w, resp)
    \/ W328(w) \/ W332(w) \/ W336(w) \/ W337(w) \/ W340(w) \/ W341(w)
    \/ W351(w) \/ W352(w) \/ W353(w) \/ W356(w) \/ W357(w)

\* a batch of three identifiers: the first is not found, the second has six
\* breaches, the lookup of the third fails on transport
ScenarioList ==
    << <<"a","@","x",".","c","o">>, <<"b","@","x",".","c","o">>,
       <<"c","@","x",".","c","o">> >>

ScenarioResponses(e) ==
    CASE e = <<"a","@","x",".","c","o">> -> {"404"}
      [] e = <<"b","@","x",".","c","o">> -> {"200six", "200sixpw"}
      [] OTHER -> {"network"}

\* one start of the batch of three and its worker, no control call
NextScenario ==
    \/ nextId = 1 /\ StartCall("c1", ScenarioList)
    \/ StartStep("c1")
    \/ \E w \in Workers : UnpausedWorkerStep(w, ScenarioResponses(email[w]))

SpecScenario == InitConnected /\ [][NextScenario]_vars

\* a batch of five identifiers
FiveList ==
    << <<"a","@","x",".","c","o">>, <<"b","@","x",".","c","o">>,
       <<"c","@","x",".","c","o">>, <<"d","@","x",".","c","o">>,
       <<"e","@","x",".","c","o">> >>

\* the second result of the batch of five is published and the third is not
\* yet in the results
AfterSecondResult ==
    /\ Len(scan_results) = 2
    /\ scan_progress.completed = 2
    /\ pcw[1] \in {"w337", "w340", "w341", "w309", "w309b", "w311", "w314", "w318",
                   "w320", "w323", "w326", "w328"}

\* one start of the batch of five, stop calls whose write of the stop flag
\* (line 298) falls between the second and the third result, and the worker
NextStopFive ==
    \/ nextId = 1 /\ StartCall("c1", FiveList)
    \/ Stop297("c1")
    \/ StartStep("c1")
    \/ (pc["c1"] = "k298" => AfterSecondResult) /\ StopStep("c1")
    \/ \E w \in Workers : UnpausedWorkerStep(w, {"404"})

SpecStopFive == InitSeq /\ [][NextStopFive]_vars

\* one request at a time, as SpecSeq, over one batch of two identifiers, with
\* a client connected
NextEvents ==
    \/ \E list \in ReadLists : nextId = 1 /\ StartCall("c1", list)
    \/ Pause281("c1") \/ Resume289("c1") \/ Stop297("c1")
    \/ CallerStep("c1")
    \/ \E w \in Workers : WorkerStep(w, {"404"})

SpecEvents == InitConnected /\ [][NextEvents]_vars

\* start calls only, one at a time, over batches of two identifiers, with a
\* client connected
NextRestart ==
    \/ \E list \in ReadLists : StartCall("c1", list)
    \/ StartStep("c1")
    \/ \E w \in Workers : UnpausedWorkerStep(w, {"404"})

SpecRestart == InitConnected /\ [][NextRestart]_vars

\* one batch of two identifiers, control requests one at a time, and readers
\* of the progress record, the results and the statistics; the scheduler runs
\* the worker and a request inside a method
NextLock ==
    \/ \E list \in ReadLists : nextId = 1 /\ StartCall("c1", list)
    \/ Pause281("c1") \/ Resume289("c1") \/ Stop297("c1")
    \/ CallerStep("c1")
    \/ \E w \in Workers : WorkerStep(w, {"404"})
    \/ \E r \in Readers : StatusRead(r) \/ ResultsRead(r)
    \/ StatisticsRead

SpecLock ==
    /\ InitSeq
    /\ [][NextLock]_vars
    /\ Fairness

\* batches one after the other, each item completed at some reading of the clock
NextEta ==
    \/ \E total \in 1..MaxTotal : \E now \in Clock : Eta258(total, now)
    \/ \E now \in Clock : \E later \in Clock : later >= now /\ Eta333(now, later)

SpecEta == InitSeq /\ [][NextEta]_vars

\* one call of _scan_single_email for every pair of answers of the remote
\* service and either value of Config.CHECK_PASTES
InitScan ==
    /\ calls = -1
    /\ InitState
    /\ connected = FALSE
    /\ lookup = NoLookup
    /\ severity_call = NoSeverityCall
    /\ stats_call = NoStatsCall
    /\ timed_progress = InitTimedProgress
    /\ stop_mark = NoStopMark
    /\ \E breach_resp \in Responses : \E paste_resp \in PasteResponses :
       \E check_pastes \in BOOLEAN :
           scan_call = [pc |-> "s378", email |-> <<"a","@","x",".","c","o">>,
                        breach_resp |-> breach_resp, paste_resp |-> paste_resp,
                        check_pastes |-> check_pastes, invoked |-> << >>, ret |-> NoResult]

NextScan == Scan378 \/ Scan382 \/ Scan386 \/ Scan400

SpecScan == InitScan /\ [][NextScan]_vars

\* line 298, with the observation of what is there when the flag is set
Stop298Marked(c) ==
    /\ pc[c] = "k298"
    /\ should_stop' = TRUE
    /\ stop_mark' = [set |-> TRUE, results |-> Len(scan_results),
                     completed |-> scan_progress.completed,
                     workers |-> {w \in Workers : Active(w)}]
    /\ Goto(c, "k300")
    /\ UNCHANGED <<scan_queue, scan_results, scan_progress, current_batch_id, is_processing,
                   is_paused, processing_thread, lock, nextId, emails, unique_emails,
                   put_i, ret, callStatus, workerVars, resumed, stopCalled, calls, auxVars>>
    /\ UNCHANGED <<connected, lookup, severity_call, stats_call, callVars, events>>

\* start requests of two request threads and stop requests of one of them,
\* running concurrently, over batches of one identifier; a behaviour holds at
\* most MaxCalls requests
NextStopRace ==
    \/ \E c \in Callers :
            \/ \E list \in RaceLists : StartCall(c, list)
            \/ StartStep(c)
    \/ Stop297("c1") \/ Stop298Marked("c1") \/ Stop300("c1") \/ Stop302("c1")
    \/ \E w \in Workers : UnpausedWorkerStep(w, {"404"})

SpecStopRace == Init /\ [][NextStopRace]_vars

\* batches started one after the other and never paused or stopped, with
\* lookups that find nothing or fail and emits that raise; the scheduler runs
\* the worker and a request inside start_batch_scan
NextDrain ==
    \/ \E list \in LiveLists : StartCall("c1", list)
    \/ StartStep("c1")
    \/ \E w \in Workers : UnpausedWorkerStep(w, FaultResponses) \/ WorkerFault(w)

SpecDrain ==
    /\ InitSeq
    /\ [][NextDrain]_vars
    /\ \A w \in Workers : WF_vars(UnpausedWorkerStep(w, FaultResponses) \/ WorkerFault(w))
    /\ WF_vars(StartStep("c1"))

(***************************************************************************)
(* Properties                                                              *)
(***************************************************************************)
Status == scan_progress.status

\* worker w takes an identifier off the queue in this step
Dequeues(w) == pcw[w] = "w318" /\ pcw'[w] = "w320"

\* C1: at most one worker is processing a batch at any time: a start issued
\* while a worker is active never launches a second one beside it.
OneWorkerPerBatch == Cardinality({w \in Workers : Active(w)}) <= 1

\* C2: a start with a valid identifier is rejected with AlreadyRunning when the
\* run status is running or paused and accepted when it is idle, completed,
\* stopped or error.
StartGuardFollowsStatus ==
    [][\A c \in Callers :
        (pc[c] = "s225" /\ pc'[c] # "s225" /\ ValidEmails(emails[c]) # << >>) =>
            /\ Status \in {"running", "paused"} => ret'[c] = Raised("AlreadyRunning")
            /\ Status \in {"idle", "completed", "stopped", "error"} => pc'[c] = "s247"]_vars

\* position of the first element of list that normalizes to e
FirstIndex(list, e) ==
    CHOOSE i \in 1..Len(list) :
        /\ Normalize(list[i]) = e
        /\ \A j \in 1..(i - 1) : Normalize(list[j]) # e

\* q holds every valid normalized identifier of list once, in first-occurrence order
EnqueuedOnceInOrder(list, q) ==
    /\ \A i \in 1..Len(q) :
        IsValidEmail(q[i]) /\ \E k \in 1..Len(list) : Normalize(list[k]) = q[i]
    /\ \A k \in 1..Len(list) :
        IsValidEmail(Normalize(list[k])) => \E i \in 1..Len(q) : q[i] = Normalize(list[k])
    /\ \A i \in 1..Len(q) : \A j \in 1..Len(q) :
        i < j => q[i] # q[j] /\ FirstIndex(list, q[i]) < FirstIndex(list, q[j])

RejectedStartChangesNothing ==
    [][\A c \in Callers :
        (pc[c] = "s225" /\ ret'[c].kind \in {"AlreadyRunning", "NoValidInput"}) =>
            UNCHANGED <<current_batch_id, scan_queue, scan_progress, scan_results,
                        is_processing, is_paused, should_stop, processing_thread, pcw>>]_vars

\* a start was rejected while a batch with a result was active
RejectedStartWitness ==
    \E c \in Callers :
        /\ pc[c] = "idle"
        /\ ret[c] = Raised("AlreadyRunning")
        /\ is_processing
        /\ scan_results # << >>

\* C5: an accepted start draws a batch id other than the previous one; when it
\* launches its worker the queue is the de-duplicated input, the results are
\* empty, the progress record is (total, 0, "", running, new id), the batch is
\* active with pause and stop flags clear, and exactly one worker is launched;
\* the id it returns is the one in the progress record.
StartInitializesBatch ==
    [][\A c \in Callers :
        /\ (pc[c] = "s247" /\ pc'[c] = "s249") => current_batch_id' # current_batch_id
        /\ (pc[c] = "s272" /\ pc'[c] = "s277") =>
              /\ scan_queue' = unique_emails[c]
              /\ scan_results' = << >>
              /\ scan_progress' = [total |-> Len(unique_emails[c]), completed |-> 0,
                                   current_email |-> << >>, status |-> "running",
                                   batch_id |-> current_batch_id]
              /\ is_processing' /\ ~is_paused' /\ ~should_stop'
              /\ Cardinality({w \in Workers : pcw[w] = "none" /\ pcw'[w] = "w309"}) = 1
              /\ \A w \in Workers : pcw'[w] # pcw[w] => pcw[w] = "none"
        /\ (pc[c] \in {"s225", "s247", "s249", "s250", "s254", "s258", "s269", "s270",
                       "s271", "s277"} /\ pc'[c] # pc[c]) =>
              \A w \in Workers : pcw[w] = "none" => pcw'[w] = "none"
        /\ (pc[c] = "s277" /\ pc'[c] = "idle") =>
              ret'[c] = Returned(scan_progress.batch_id)]_vars

\* a second batch has just been launched after a stopped one
StartInitializesBatchWitness ==
    \E c \in Callers :
        /\ pc[c] = "s277"
        /\ current_batch_id = 2
        /\ pcw[2] = "w309"
        /\ pcw[1] # "none"

PauseLabels == {"p282", "p284", "p285"}
ResumeLabels == {"r289", "r290", "r292", "r293"}
StopLabels == {"k298", "k300", "k302"}

\* caller c is inside a control call made outside its legal source state
IllegalControl(c) ==
    \/ pc[c] \in PauseLabels /\ callStatus[c] # "running"
    \/ pc[c] \in ResumeLabels /\ callStatus[c] # "paused"
    \/ pc[c] \in StopLabels /\ callStatus[c] \notin {"running", "paused"}

\* C6: no step of a pause made when the status is not running, of a resume
\* made when it is not paused, or of a stop made when it is neither, changes
\* the run status.
IllegalControlIsNoOp ==
    [][\A c \in Callers :
        (IllegalControl(c) /\ pc'[c] # pc[c]) => scan_progress'.status = Status]_vars

\* a resume or stop call is under way
ResumeOrStopCalled == \E c \in Callers : pc[c] \in ResumeLabels \cup StopLabels

\* C7 as stated: while the status is paused and neither resume nor stop has
\* been called, no worker takes an identifier off the queue.
NoDequeueWhilePaused ==
    [][(Status = "paused" /\ ~ResumeOrStopCalled) =>
            \A w \in Workers : ~Dequeues(w)]_vars

\* worker w has passed the pause wait of lines 311-312 and not yet dequeued
PastPauseWait(w) == pcw[w] \in {"w314", "w318"}

\* C7 amended: while the paused flag is set and no stop is requested, no worker
\* leaves the pause wait, and a dequeue is only ever the one step from line 318
\* of a worker that had passed the wait: after pause takes effect a worker
\* dequeues at most the one item whose pause check it had already passed.
PausedWorkerDequeuesAtMostOnce ==
    [][\A w \in Workers :
        /\ (is_paused /\ ~should_stop /\ ~PastPauseWait(w)) => ~PastPauseWait(w)'
        /\ scan_queue' # scan_queue /\ pcw'[w] # pcw[w] =>
              PastPauseWait(w) /\ ~PastPauseWait(w)']_vars

\* a worker blocks in the pause wait with an item left, after finishing one
PausedWorkerWitness ==
    \E w \in Workers :
        /\ pcw[w] = "w311b"
        /\ is_paused /\ ~should_stop
        /\ Status = "paused"
        /\ scan_queue # << >>
        /\ Len(scan_results) = 1

\* C8 as stated: once the stop flag is set, no worker takes an identifier off
\* the queue.
NoDequeueAfterStop ==
    [][should_stop => \A w \in Workers : ~Dequeues(w)]_vars

\* worker w has passed the stop check of lines 314-315 and not yet dequeued
PastStopCheck(w) == pcw[w] = "w318"

\* C8 amended: while the stop flag is set no worker passes the stop check of
\* line 314, and a dequeue is only ever the one step from line 318 of a worker
\* that had passed it: after stop sets the flag a worker dequeues at most the
\* one item whose stop check it had already passed, then leaves the loop.
StoppedWorkerDequeuesAtMostOnce ==
    [][\A w \in Workers :
        /\ (should_stop /\ ~PastStopCheck(w)) => ~PastStopCheck(w)'
        /\ scan_queue' # scan_queue /\ pcw'[w] # pcw[w] =>
              PastStopCheck(w) /\ ~PastStopCheck(w)'
        /\ (should_stop /\ pcw[w] \in {"w309b", "w314"} /\ pcw'[w] # pcw[w]) =>
              pcw'[w] = "w350"]_vars

\* a stopped worker has left the loop with an item still queued
StoppedWorkerWitness ==
    \E w \in Workers :
        /\ pcw[w] = "w350"
        /\ should_stop
        /\ scan_queue # << >>
        /\ Len(scan_results) = 1

\* C9: a stop called when the status is running or paused, also with the worker
\* in the pause wait, leads to the batch being inactive with status stopped, and
\* to the return of the worker that was processing it.
StopLeadsToStopped ==
    /\ stopCalled ~> (~is_processing /\ Status = "stopped")
    /\ \A w \in Workers :
        (stopCalled /\ processing_thread = w) ~> (pcw[w] = "done")

\* a stop call has passed the guard of line 297: the batch was active
StopAccepted == \E c \in Callers : pc[c] = "k298"

\* a stop that finds the batch active, also one whose worker is in the pause
\* wait, leads to the batch being inactive with the worker returned, and to
\* status stopped once the worker has written its terminal status
StopAcceptedLeadsToInactive ==
    /\ StopAccepted ~> (~is_processing /\ Status = "stopped")
    /\ \A w \in Workers :
        (StopAccepted /\ processing_thread = w) ~> (pcw[w] = "done")

\* a worker stopped while paused has returned and left the queue behind
StoppedWhilePaused ==
    /\ processing_thread # 0
    /\ pcw[processing_thread] = "done"
    /\ is_paused /\ should_stop /\ ~is_processing
    /\ Status = "stopped"
    /\ scan_queue # << >>

\* C10: after a resume made when the status is paused and the queue is not
\* empty, and with no further pause or stop, the worker of the batch is still
\* in its loop until it has dequeued the next item.
ResumeUnblocksWorker ==
    resumed =>
        /\ processing_thread # 0
        /\ pcw[processing_thread] \notin {"w350", "w352", "w353", "w356", "w357", "done"}

\* the identifiers of the results, in order
ResultEmails == [i \in 1..Len(scan_results) |-> scan_results[i].email]

\* C11: within one batch the completed count never goes down, under worker
\* steps and pause, resume and stop calls, and it never exceeds total.
CompletedIsMonotone ==
    [][/\ scan_progress'.batch_id = scan_progress.batch_id =>
              scan_progress'.completed >= scan_progress.completed
       /\ scan_progress'.completed <= scan_progress'.total]_vars

\* every item of a batch of two is counted, the first of them across a pause
CompletedIsMonotoneWitness ==
    /\ scan_progress.total = 2
    /\ scan_progress.completed = 2
    /\ is_paused
    /\ Len(scan_results) = 2

\* C12: when a worker sets the terminal status completed, the completed count
\* is the number of enqueued items and the results list holds one result for
\* each of them.
CompletedMeansAllCounted ==
    [][\A w \in Workers :
        (pcw[w] = "w350" /\ pcw'[w] = "w352" /\ scan_progress'.status = "completed") =>
            /\ scan_progress.total = Len(enqueued)
            /\ scan_progress.completed = Len(enqueued)
            /\ ResultEmails = enqueued]_vars

\* C13: in every snapshot a reader gets, current_email is not empty when an
\* item is in flight, and it is empty when the status is stopped or completed
\* and no item is in flight.
CurrentEmailFollowsFlight ==
    \A r \in Readers :
        /\ status_view[r].in_flight => status_view[r].progress.current_email # << >>
        /\ (/\ status_view[r].progress.status \in {"completed", "stopped"}
            /\ ~status_view[r].in_flight) =>
                status_view[r].progress.current_email = << >>

\* a snapshot taken after a stop made between two items: status stopped,
\* nothing in flight, current_email naming the item finished before
StoppedSnapshotNamesItem ==
    \E r \in Readers :
        /\ status_view[r].progress.status = "stopped"
        /\ ~status_view[r].in_flight
        /\ status_view[r].progress.completed = 1
        /\ status_view[r].progress.current_email = <<"a","@","x",".","c","o">>

\* C14: no snapshot a reader gets shows the completed count raised for an item
\* with current_email still naming that item.
NoHalfUpdatedSnapshot ==
    \A r \in Readers : ~status_view[r].counted

\* C15: every step that writes the progress record or the results list, or
\* takes a view of them, is taken by the holder of the lock or takes the lock
\* itself: never while another thread holds it.
AccessesHoldTheLock ==
    [][(\/ scan_progress' # scan_progress
        \/ scan_results' # scan_results
        \/ status_view' # status_view
        \/ results_view' # results_view) =>
            (lock = 0 \/ pcw'[lock] # pcw[lock])]_vars

\* C16: what get_results_snapshot returned is not the live list, and as long
\* as the reader keeps it, no append of a worker and no later start changes
\* its length or its contents.
ResultsSnapshotIsStable ==
    [][\A r \in Readers :
        results_view[r].by = "results" =>
            /\ ~results_view[r].live
            /\ results_view'[r] = results_view[r] => View(r)' = View(r)]_vars

\* a reader holds a snapshot with one result while a later batch has appended
\* a result of its own
ResultsSnapshotIsStableWitness ==
    \E r \in Readers :
        /\ results_view[r].by = "results"
        /\ Len(View(r)) = 1
        /\ scan_progress.batch_id = 2
        /\ Len(scan_results) = 2
        /\ View(r)[1] = scan_results[1]

\* C17: the results list never holds two results for one identifier, and the
\* identifiers of the results, in order, are a prefix of the enqueued order.
ResultsArePrefixOfEnqueued ==
    /\ \A i \in 1..Len(scan_results) : \A j \in 1..Len(scan_results) :
          i # j => scan_results[i].email # scan_results[j].email
    /\ Len(scan_results) <= Len(enqueued)
    /\ ResultEmails = SubSeq(enqueued, 1, Len(scan_results))

\* C18: a lookup that fails gives a result with status error and a cause for
\* the identifier; that one result is appended and counted, the status of the
\* batch is left alone, and the worker goes back to the loop condition, not to
\* the error path.
LookupFailureIsRecorded ==
    [][\A w \in Workers :
        /\ (pcw[w] = "w326" /\ pcw'[w] # "w326") =>
              /\ \A resp \in FailedResponses :
                    /\ ScanSingleEmail(email[w], resp).status = "error"
                    /\ ScanSingleEmail(email[w], resp).error # "none"
              /\ response'[w] \in FailedResponses =>
                    /\ pcw'[w] = "w328"
                    /\ result'[w].email = email[w]
                    /\ result'[w].status = "error"
                    /\ result'[w].error # "none"
                    /\ scan_progress' = scan_progress
        /\ (pcw[w] = "w328" /\ pcw'[w] # "w328") =>
              /\ pcw'[w] = "w332"
              /\ scan_results' = Append(scan_results, result[w])
        /\ (pcw[w] = "w332" /\ pcw'[w] # "w332") =>
              /\ pcw'[w] = "w336"
              /\ scan_progress' =
                    [scan_progress EXCEPT !.completed = scan_progress.completed + 1]
        /\ (pcw[w] \in {"w336", "w337", "w340", "w341", "w346"} /\ pcw'[w] # pcw[w]) =>
              pcw'[w] \in {"w337", "w340", "w341", "w346", "w309"}]_vars

\* a batch has ended completed with the result of a failed lookup followed by
\* the result of the next identifier
LookupFailureIsRecordedWitness ==
    /\ Status = "completed"
    /\ ~is_processing
    /\ Len(scan_results) = 2
    /\ scan_results[1].status = "error"
    /\ scan_results[1].error = "exception"
    /\ scan_results[2].status = "clean"
    /\ scan_progress.completed = 2

\* C19: a worker that has caught an exception raised inside its loop leaves
\* the loop for the error path (status error, batch inactive, error event).
FaultAbortsLoop ==
    [][\A w \in Workers :
        (pcw[w] = "w346" /\ pcw'[w] # "w346") => pcw'[w] = "w366"]_vars

\* C20: once the status is completed, stopped or error and the batch is
\* inactive, the status changes only by the progress record of a new start.
TerminalStatusIsStable ==
    [][(/\ Status \in {"completed", "stopped", "error"}
        /\ ~is_processing
        /\ scan_progress'.status # Status) =>
            \E c \in Callers : pc[c] = "s258" /\ pc'[c] = "s269"]_vars

\* the high-risk categories: a label is one of them when it is, in lower case,
\* one of the three names
HighRiskLabels == Range(high_severity_indicators)

LabelsIntersectHighRisk(breach) ==
    \E i \in DOMAIN breach.DataClasses : Lower(breach.DataClasses[i]) \in HighRiskLabels

\* the tier of the first matching rule
FirstMatchingRule(breaches) ==
    LET n == Len(breaches)
        sensitive == Cardinality({i \in DOMAIN breaches : breaches[i].IsSensitive})
        verified == Cardinality({i \in DOMAIN breaches : breaches[i].IsVerified})
    IN CASE n = 0 -> "clean"
         [] n > 0 /\ ((\E i \in DOMAIN breaches : LabelsIntersectHighRisk(breaches[i]))
                        \/ sensitive > 2) -> "critical"
         [] OTHER -> IF verified > 3 \/ n > 5 THEN "high"
                     ELSE IF n > 2 THEN "medium" ELSE "low"

\* C21: for every list of exposure records the classifier returns the tier of
\* the first matching rule: clean for the empty list; critical if a record's
\* labels intersect the high-risk set or more than 2 records are sensitive;
\* high if more than 3 are verified or there are more than 5; medium if there
\* are more than 2; low otherwise.
SeverityFollowsRules ==
    severity_call.ret # "none" =>
        severity_call.ret = FirstMatchingRule(severity_call.breaches)

\* the classifier agrees with the rules on every list in which each label
\* that mentions a high-risk category is that category
SeverityFollowsRulesOnExactLabels ==
    (/\ severity_call.ret # "none"
     /\ \A i \in DOMAIN severity_call.breaches :
            HasHighRiskData(severity_call.breaches[i])
                => LabelsIntersectHighRisk(severity_call.breaches[i])) =>
        severity_call.ret = FirstMatchingRule(severity_call.breaches)

\* four verified records among five have been classified high
SeverityHighByVerified ==
    /\ severity_call.ret = "high"
    /\ Len(severity_call.breaches) = 5

\* C22: check_breaches maps every outcome of the remote service to one
\* result: not found gives clean with no records; found gives compromised with
\* the records returned, their count and their severity; a rate limit that
\* outlasts the retry gives error with the rate-limit reason; a refused
\* credential gives error; any other status and a transport failure give
\* error with a cause; every error result has no records and count 0.
LookupMapsOutcome ==
    [][(lookup.pc = "l95" /\ lookup'.pc = "done") =>
        LET resp == lookup.response
            res == lookup'.ret
        IN /\ resp \in {"404", "200empty"} =>
                res = BreachResult("clean", "none", << >>, "clean")
           /\ Found(resp) =>
                /\ res.status = "compromised"
                /\ res.breaches = Breaches(resp) /\ res.breaches # << >>
                /\ res.breach_count = Len(Breaches(resp))
                /\ res.severity = CalculateSeverity(Breaches(resp))
           /\ resp = "429" =>
                /\ lookup.requests = 2
                /\ res.status = "error" /\ res.error = "Rate limit exceeded"
           /\ resp = "401" => res.status = "error" /\ res.error # "none"
           /\ resp \in {"500", "network"} => res.status = "error" /\ res.error # "none"
           /\ resp \in Responses \ {"fault"} =>
                res.status \in {"clean", "compromised", "error"}
           /\ res.status = "error" => res.breaches = << >> /\ res.breach_count = 0]_vars

\* a lookup rate-limited once has returned the six records of its second answer
LookupMapsOutcomeWitness ==
    /\ lookup.pc = "done"
    /\ lookup.first = "429"
    /\ lookup.second = "200six"
    /\ lookup.ret.status = "compromised"
    /\ lookup.ret.breach_count = 6

\* C23: one lookup makes at most two requests; a first 429 is followed by one
\* reissue after a delay within 1..60, 60 when no delay is advised; a second
\* 429 is returned as an error result with no further request.
RetryIsBounded ==
    /\ lookup.requests <= 2
    /\ lookup.requests = 2 => lookup.first = "429"
    /\ (lookup.first = "429" /\ lookup.pc \in {"l86", "l95", "done"}) =>
          /\ lookup.delay \in 1..60
          /\ (~lookup.retry_after.present) => lookup.delay = 60
    /\ (lookup.first = "429" /\ lookup.pc \in {"l95", "done"}) => lookup.requests = 2
    /\ (lookup.first # "429" /\ lookup.pc \in {"l95", "done"}) =>
          lookup.requests = 1 /\ lookup.delay = 0
    /\ (lookup.second = "429" /\ lookup.pc = "done") =>
          /\ lookup.requests = 2
          /\ lookup.ret.status = "error"
          /\ lookup.ret.error = "Rate limit exceeded"

\* a lookup rate-limited twice, the first time with an advised delay of 120,
\* has slept 60 and returned
RetryIsBoundedWitness ==
    /\ lookup.pc = "done"
    /\ lookup.first = "429" /\ lookup.second = "429"
    /\ lookup.retry_after = Header(<<"1","2","0">>)
    /\ lookup.delay = 60
    /\ lookup.requests = 2

\* the exposure (or paste) counts of the results added up: one pair for
\* every unit of every result
Total(results, Count(_)) ==
    Cardinality({<<i, k>> \in (DOMAIN results) \X (0..20) :
                    k >= 1 /\ k <= Count(results[i])})

\* C24: statistics() returns the empty sentinel exactly when there are no
\* results; otherwise total_emails is the number of results and the sum of
\* clean_emails, compromised_emails and error_emails, each the number of
\* results of that status, and total_breaches and total_pastes are the sums of
\* the exposure and paste counts of the results.
StatisticsCountResults ==
    stats_call.returned =>
        LET results == stats_call.results
            stats == stats_call.ret
            ExposureCount(r) == r.breach_count
            PasteCount(r) == r.paste_count
            WithStatus(status) == {i \in DOMAIN results : results[i].status = status}
        IN /\ stats.empty <=> results = << >>
           /\ ~stats.empty =>
                /\ stats.total_emails = Len(results)
                /\ stats.total_emails
                     = stats.clean_emails + stats.compromised_emails + stats.error_emails
                /\ stats.clean_emails = Cardinality(WithStatus("clean"))
                /\ stats.compromised_emails = Cardinality(WithStatus("compromised"))
                /\ stats.error_emails = Cardinality(WithStatus("error"))
                /\ stats.total_breaches = Total(results, ExposureCount)
                /\ stats.total_pastes = Total(results, PasteCount)

\* the statistics of a clean, a failed and a compromised result
StatisticsCountResultsWitness ==
    /\ stats_call.returned
    /\ stats_call.ret.total_emails = 3
    /\ stats_call.ret.clean_emails = 1
    /\ stats_call.ret.error_emails = 1
    /\ stats_call.ret.compromised_emails = 1
    /\ stats_call.ret.total_breaches = 11
    /\ stats_call.ret.total_pastes = 2

\* position of the first breach called name, counting through the results
FirstSeen(results, name) ==
    LET names == BreachNames(results)
    IN CHOOSE i \in DOMAIN names :
          names[i] = name /\ \A j \in 1..(i - 1) : names[j] # name

\* C25: the severity histogram counts the compromised results only and its
\* counts add up to compromised_emails; the top exposure sources are at most
\* 10 names, each with its frequency over all results, in descending order of
\* frequency, equal frequencies in the order the names are first met.
StatisticsRankSources ==
    (stats_call.returned /\ ~stats_call.ret.empty) =>
        LET results == stats_call.results
            stats == stats_call.ret
            top == stats.top_breaches
            names == BreachNames(results)
            all == {names[i] : i \in DOMAIN names}
            Frequency(name) == Cardinality({i \in DOMAIN names : names[i] = name})
            Before(n, m) ==
                \/ Frequency(n) > Frequency(m)
                \/ Frequency(n) = Frequency(m) /\ FirstSeen(results, n) < FirstSeen(results, m)
            SeverityCount(k) == stats.severity_breakdown[k]
        IN /\ \A k \in SeverityKeys :
                stats.severity_breakdown[k] =
                    Cardinality({i \in DOMAIN results :
                        results[i].status = "compromised" /\ results[i].severity = k})
           /\ Total(<<"clean", "low", "medium", "high", "critical", "unknown">>, SeverityCount)
                = stats.compromised_emails
           /\ Len(top) <= 10
           /\ Len(top) = Min(10, Cardinality(all))
           /\ \A i \in DOMAIN top : top[i][1] \in all /\ top[i][2] = Frequency(top[i][1])
           /\ \A i \in DOMAIN top : \A j \in DOMAIN top : i < j => Before(top[i][1], top[j][1])
           /\ \A n \in all :
                (\A i \in DOMAIN top : top[i][1] # n) =>
                    \A i \in DOMAIN top : Before(top[i][1], n)

\* thirteen sources ranked: the one met last but three times first, then the
\* one met twice, then eight of those met once, in the order they were met
StatisticsRankSourcesWitness ==
    /\ stats_call.returned
    /\ Len(stats_call.ret.top_breaches) = 10
    /\ stats_call.ret.top_breaches[1] = <<"Adobe", 3>>
    /\ stats_call.ret.top_breaches[2] = <<"Canva", 2>>
    /\ stats_call.ret.top_breaches[3] = <<"S01", 1>>
    /\ stats_call.ret.top_breaches[10] = <<"S08", 1>>
    /\ stats_call.ret.severity_breakdown["critical"] = 0

\* the worker of the first batch has returned and no call is under way
FirstBatchOver == pcw[1] = "done" /\ pc["c1"] = "idle"

\* the outcome of the batch of three, but for the severity of the second result
ScenarioOutcome ==
    /\ Len(scan_results) = 3
    /\ ResultEmails = ScenarioList
    /\ scan_results[1].status = "clean" /\ scan_results[1].severity = "clean"
    /\ scan_results[2].status = "compromised" /\ scan_results[2].breach_count = 6
    /\ scan_results[3].status = "error" /\ scan_results[3].error # "none"
    /\ LET stats == events[Len(events)].statistics IN
          /\ events[Len(events)].kind = "batch_complete"
          /\ stats = GetBatchStatistics(scan_results)
          /\ stats.clean_emails = 1 /\ stats.compromised_emails = 1
          /\ stats.error_emails = 1 /\ stats.total_breaches = 6
    /\ Status = "completed"
    /\ scan_progress.completed = 3

\* C26 as stated: the batch of three ends with the results clean (severity
\* clean), compromised (severity critical, count 6) and error, with statistics
\* 1 clean, 1 compromised, 1 error and 6 breaches, and with status completed.
ScenarioEndsCritical ==
    FirstBatchOver => ScenarioOutcome /\ scan_results[2].severity = "critical"

\* C26 amended: the same outcome, with the severity of the second result
\* critical when a label of one of its six records is a high-risk category and
\* high when none of the labels mentions one (six records of which two are
\* sensitive and one is verified match the rule for high, not for critical).
ScenarioEndsHighOrCritical ==
    FirstBatchOver =>
        /\ ScenarioOutcome
        /\ (\E i \in 1..6 : LabelsIntersectHighRisk(scan_results[2].breaches[i]))
              => scan_results[2].severity = "critical"
        /\ (\A i \in 1..6 : ~HasHighRiskData(scan_results[2].breaches[i]))
              => scan_results[2].severity = "high"

\* the batch of three is over, its six records without high-risk data
\* classified high
ScenarioEndsHighWitness ==
    /\ FirstBatchOver
    /\ Len(scan_results) = 3
    /\ scan_results[2].breaches = SixBreaches
    /\ scan_results[2].severity = "high"
    /\ scan_results[3].error = "Network error"

\* the worker has taken the third identifier off the queue, or has passed the
\* last check before doing so
ThirdItemTaken == pcw[1] \in {"w318", "w320", "w323", "w326", "w328"}

\* C27 as stated: if the stop flag is set after the second result of a batch
\* of five is published and before the third result, the batch ends stopped
\* with completed 2, two results, and the rest of the queue left behind.
StopAfterSecondKeepsTwo ==
    should_stop /\ FirstBatchOver =>
        /\ Status = "stopped"
        /\ scan_progress.completed = 2
        /\ Len(scan_results) = 2
        /\ Len(scan_queue) = 3

\* C27 amended: the batch ends stopped with completed 2 or 3, as many
\* results, and the rest of the queue left behind; a worker that had not yet
\* passed the stop check of line 314 for the third item when the flag was set
\* does not take the third item.
StopAfterSecondKeepsTwoOrThree ==
    /\ [](should_stop /\ FirstBatchOver =>
            /\ Status = "stopped"
            /\ scan_progress.completed \in {2, 3}
            /\ Len(scan_results) = scan_progress.completed
            /\ Len(scan_queue) = 5 - scan_progress.completed)
    /\ [][should_stop /\ AfterSecondResult /\ ~ThirdItemTaken =>
            ~ThirdItemTaken' /\ Len(scan_results') = 2 /\ scan_progress'.completed = 2]_vars

\* the stop flag is set with two results published and the third identifier
\* already off the queue
StopAfterSecondWitness ==
    /\ should_stop
    /\ AfterSecondResult
    /\ pcw[1] = "w320"
    /\ Len(scan_queue) = 2

\* the events worker w has published, in order
EventsBy(w) ==
    LET ByW(event) == event.by = w
    IN SelectSeq(events, ByW)

\* the result events among the first k events of log
ResultsUpTo(log, k) == Cardinality({j \in 1..k : log[j].kind = "scan_result"})

\* every result event in log comes right after a progress event naming its
\* item and right before a progress event with the count raised
ItemEventsInOrder(log) ==
    \A k \in DOMAIN log :
        log[k].kind = "scan_result" =>
            /\ k > 1
            /\ log[k - 1].kind = "scan_progress"
            /\ log[k - 1].email = log[k].email
            /\ k < Len(log) =>
                  /\ log[k + 1].kind = "scan_progress"
                  /\ log[k + 1].completed = ResultsUpTo(log, k)

\* a completion event in log is the last event and comes right after a
\* progress event with a terminal status and no current identifier
ExitEventsInOrder(log) ==
    \A k \in DOMAIN log :
        log[k].kind = "batch_complete" =>
            /\ k = Len(log)
            /\ k > 1
            /\ log[k - 1].kind = "scan_progress"
            /\ log[k - 1].status \in {"completed", "stopped"}
            /\ log[k - 1].email = << >>

\* C28: for every item the worker publishes a progress event naming it, then
\* its result event, then a progress event with the count raised; on loop exit
\* it publishes a progress event with a terminal status and no current
\* identifier, then one completion event, and nothing after it.
EventsInOrder ==
    \A w \in Workers :
        /\ ItemEventsInOrder(EventsBy(w))
        /\ ExitEventsInOrder(EventsBy(w))
        /\ pcw[w] = "done" =>
              /\ EventsBy(w) # << >>
              /\ EventsBy(w)[Len(EventsBy(w))].kind = "batch_complete"

\* the events of the items are in order, and a worker that has returned has
\* published one completion event, its last event, right after a progress event
EventsInOrderButStatus ==
    \A w \in Workers :
        LET log == EventsBy(w) IN
        /\ ItemEventsInOrder(log)
        /\ \A k \in DOMAIN log :
              log[k].kind = "batch_complete" =>
                  k = Len(log) /\ k > 1 /\ log[k - 1].kind = "scan_progress"
        /\ pcw[w] = "done" => log # << >> /\ log[Len(log)].kind = "batch_complete"

\* the worker of a batch carries the number of the batch
WorkerOfBatch ==
    \A w \in Workers : Active(w) => current_batch_id = w /\ scan_progress.batch_id = w

\* C29: the completion event a worker publishes carries the id of the batch
\* this worker processed, the number of its results and their statistics.
CompletionCarriesOwnBatch ==
    \A k \in DOMAIN events :
        events[k].kind = "batch_complete" =>
            LET own == ResultsUpTo(EventsBy(events[k].by), Len(EventsBy(events[k].by)))
            IN /\ events[k].batch_id = events[k].by
               /\ events[k].total_results = own
               /\ events[k].statistics.total_emails = own
               /\ events[k].statistics.empty <=> own = 0

\* C30: after an item the worker sleeps for the inter-item delay exactly when
\* the queue is not empty and no stop has been requested.
SleepsUnlessLastOrStopped ==
    [][\A w \in Workers :
        (pcw[w] = "w340" /\ pcw'[w] # "w340") =>
            (pcw'[w] = "w341" <=> (scan_queue # << >> /\ ~should_stop))]_vars

\* after an item the worker sleeps exactly when the queue is not empty, and
\* it goes from the sleep to the loop condition
SleepsUnlessLast ==
    [][\A w \in Workers :
        /\ (pcw[w] = "w340" /\ pcw'[w] # "w340") =>
              (pcw'[w] = "w341" <=> scan_queue # << >>)
        /\ (pcw[w] = "w341" /\ pcw'[w] # "w341") => pcw'[w] = "w309"]_vars

\* a worker sleeps with the stop flag set and an identifier left in the queue
SleepsWhileStopped ==
    \E w \in Workers : pcw[w] = "w341" /\ should_stop /\ scan_queue # << >>

\* worker w is in a remote lookup (line 326), in the inter-item sleep (line
\* 341), in the pause wait (lines 311-312) or about to publish an event
Blocking(w) ==
    pcw[w] \in {"w326", "w341", "w311b", "w323", "w336", "w337", "w356", "w357"}

\* a thread is inside a method of the controller
ThreadsRunning ==
    \/ \E w \in Workers : pcw[w] \notin {"none", "done"}
    \/ pc["c1"] # "idle"

\* C31: a worker in a lookup, in a sleep, in the pause wait or at an emit does
\* not hold the lock, and nobody holds it while stop_batch joins unless that
\* holder can go on; whoever holds the lock can take its next step, some
\* thread can always take a step while one is inside a method, and the lock
\* is free again and again, so that the readers get it.
LockNeverBlocks ==
    /\ [](\A w \in Workers : Blocking(w) => lock # w)
    /\ [](lock # 0 => lock \in Workers /\ pcw[lock] \in {"w352", "w353"}
                      /\ ENABLED WorkerStep(lock, {"404"}))
    /\ [](pc["c1"] = "k302" => ENABLED Stop302("c1"))
    /\ [](ThreadsRunning =>
            ENABLED (CallerStep("c1") \/ \E w \in Workers : WorkerStep(w, {"404"})))
    /\ (lock # 0 ~> LockFree)

\* a reader has taken the progress record while the worker is in the sleep
\* between two items, and the statistics have been read
LockNeverBlocksWitness ==
    /\ \E w \in Workers : pcw[w] = "w341"
    /\ status_view["r1"].progress.completed = 1
    /\ stats_call.returned /\ stats_call.results # << >>
    /\ results_view["r1"].items # << >>

\* the seconds an estimate lies after the reading it was computed at are the
\* linear projection elapsed / completed * remaining
IsProjection(progress) ==
    LET estimate == progress.estimated_completion
        elapsed == progress.read - progress.start_time.at
        remaining == progress.total - progress.completed
    IN /\ estimate.set
       /\ estimate.at >= progress.read
       /\ estimate.num * progress.completed = elapsed * remaining * estimate.den

\* C32: while no item is completed there is no estimate; after each completed
\* item the estimate is the linear projection elapsed / completed * remaining
\* from the clock reading of the update, hence no time remaining when
\* completed = total.
EtaIsLinearProjection ==
    /\ timed_progress.completed = 0 => ~timed_progress.estimated_completion.set
    /\ timed_progress.completed > 0 =>
            /\ IsProjection(timed_progress)
            /\ timed_progress.completed = timed_progress.total =>
                    timed_progress.estimated_completion.num = 0

\* the same, for the updates whose clock reading is later than the start
EtaIsLinearProjectionOnLaterReading ==
    /\ timed_progress.completed = 0 => ~timed_progress.estimated_completion.set
    /\ (timed_progress.completed > 0 /\ timed_progress.read > timed_progress.start_time.at) =>
            /\ IsProjection(timed_progress)
            /\ timed_progress.completed = timed_progress.total =>
                    timed_progress.estimated_completion.num = 0

\* a batch whose last item is completed at a reading not later than the start
\* keeps the estimate of the item before
EtaStale ==
    /\ timed_progress.total = 2 /\ timed_progress.completed = 2
    /\ timed_progress.read <= timed_progress.start_time.at
    /\ timed_progress.estimated_completion.set
    /\ timed_progress.estimated_completion.num > 0

\* the lookups of a finished call, in the order of the claim
LookupsInOrder ==
    /\ scan_call.invoked # << >>
    /\ scan_call.invoked[1] = "check_breaches"
    /\ Len(scan_call.invoked) <= 2
    /\ Len(scan_call.invoked) = 2 => scan_call.invoked[2] = "check_pastes"
    /\ Len(scan_call.invoked) = 2 => scan_call.check_pastes
    /\ (scan_call.check_pastes /\ ~Escapes(scan_call.breach_resp)) =>
            Len(scan_call.invoked) = 2

\* C33: a call of _scan_single_email invokes the exposure lookup first and the
\* paste lookup second, the latter only when the configuration enables it; the
\* status of its result is that of the exposure lookup alone whatever the
\* paste lookup does, and a paste lookup that fails gives the paste count 0.
PasteLookupNeverChangesStatus ==
    scan_call.pc = "done" =>
        /\ LookupsInOrder
        /\ scan_call.ret.status = ScanSingleEmail(scan_call.email, scan_call.breach_resp).status
        /\ (scan_call.check_pastes /\ scan_call.paste_resp \in FailedPasteResponses) =>
                scan_call.ret.paste_count = 0

\* the same, for the paste lookups that return or raise a RequestException
PasteLookupHandledNeverChangesStatus ==
    (scan_call.pc = "done" /\ scan_call.paste_resp # "fault") =>
        /\ LookupsInOrder
        /\ scan_call.ret = [ScanSingleEmail(scan_call.email, scan_call.breach_resp)
                                EXCEPT !.paste_count = scan_call.ret.paste_count]
        /\ (scan_call.check_pastes /\ scan_call.paste_resp \in FailedPasteResponses) =>
                scan_call.ret.paste_count = 0

\* exposures were found, the paste lookup raised, and the result is an error
\* without them
PasteFaultHidesExposures ==
    /\ scan_call.pc = "done"
    /\ Found(scan_call.breach_resp)
    /\ scan_call.invoked = <<"check_breaches", "check_pastes">>
    /\ scan_call.ret.status = "error" /\ scan_call.ret.breaches = << >>

\* worker w has passed the last stop check for an item and not yet appended
\* its result
MayAppend(w) == pcw[w] \in {"w318", "w320", "w323", "w326", "w328"}

\* worker w has passed the last stop check for an item and not yet counted it
MayCount(w) == MayAppend(w) \/ pcw[w] = "w332"

\* C34: the stop flag, once set, stays set while the worker is inside its
\* loop; with the flag set a worker only appends the result, and counts the
\* item, whose stop check it had passed before, and every append adds one
\* result and every update of the count adds one: after stop sets the flag at
\* most one further result is appended and the count grows by at most one.
StopAllowsOneMoreResult ==
    [][\A w \in Workers :
        /\ (should_stop /\ Active(w)) => should_stop'
        /\ (should_stop /\ ~MayAppend(w)) => ~MayAppend(w)'
        /\ (should_stop /\ ~MayCount(w)) => ~MayCount(w)'
        /\ (pcw'[w] # pcw[w] /\ scan_results' # scan_results) =>
                /\ pcw[w] = "w328" /\ pcw'[w] = "w332"
                /\ Len(scan_results') = Len(scan_results) + 1
        /\ (pcw'[w] # pcw[w] /\ scan_progress'.completed # scan_progress.completed) =>
                /\ pcw[w] = "w332" /\ pcw'[w] = "w336"
                /\ scan_progress'.completed = scan_progress.completed + 1]_vars

\* the stop flag is set and the worker of a batch of two is about to append
\* the result of the first identifier with the second still queued
StopAllowsOneMoreResultWitness ==
    \E w \in Workers :
        /\ should_stop
        /\ pcw[w] = "w328"
        /\ scan_results = << >>
        /\ scan_queue # << >>

\* C34 as a count: as long as the workers that were inside their loop when
\* stop_batch set the flag have not left it, the results list holds at most
\* one result more, and the completed count is at most one higher, than when
\* the flag was set.
StopKeepsOneMoreResult ==
    (stop_mark.set /\ stop_mark.workers # {} /\ \A w \in stop_mark.workers : Active(w)) =>
        /\ Len(scan_results) <= stop_mark.results + 1
        /\ scan_progress.completed <= stop_mark.completed + 1

\* a second start has cleared the flag a stop had set, with the worker the
\* stop was meant for still inside its loop
StopFlagCleared ==
    /\ stop_mark.set /\ stop_mark.workers # {}
    /\ \A w \in stop_mark.workers : Active(w)
    /\ ~should_stop

\* C35: whenever the lock is free, so that a reader can take the progress
\* record and the results one after the other, the results list has as many
\* results as the progress record counts completed, also while a start is
\* under way.
ResultsMatchCompleted ==
    LockFree => Len(scan_results) = scan_progress.completed

\* the same but for a worker between its append (line 328) and its count
\* (line 332) and a start between its reset of the results (line 249) and of
\* the progress record (line 258)
ResultsMatchCompletedBetweenBlocks ==
    (/\ LockFree
     /\ \A w \in Workers : pcw[w] # "w332"
     /\ pc["c1"] \notin {"s250", "s254", "s258"}) =>
        Len(scan_results) = scan_progress.completed

\* the second batch has emptied the results and the progress record still
\* counts the two items of the first
StartBetweenResets ==
    /\ LockFree
    /\ pc["c1"] = "s254"
    /\ scan_results = << >>
    /\ scan_progress.completed = 2

\* the worker of the current batch has returned with the paused flag still
\* set, no stop requested and no request under way: the pause took effect
\* after the worker's last pause check, with the last item in flight or done
PausedOnLastItem(w) ==
    /\ pcw[w] = "done" /\ processing_thread = w
    /\ pc["c1"] = "idle"
    /\ is_paused /\ ~should_stop
    /\ scan_queue = << >>

\* C36: a batch paused while its last item is in flight ends, with no resume,
\* with every item scanned, the status completed and the batch inactive.
PauseOnLastItemEndsCompleted ==
    \A w \in Workers :
        PausedOnLastItem(w) =>
            /\ Len(scan_results) = scan_progress.total
            /\ Status = "completed"
            /\ ~is_processing

\* the same but for the status, which is completed or paused
PauseOnLastItemEndsInactive ==
    \A w \in Workers :
        PausedOnLastItem(w) =>
            /\ Len(scan_results) = scan_progress.total
            /\ Status \in {"completed", "paused"}
            /\ ~is_processing

\* a worker with the last item in flight and the paused flag set goes on to
\* mark the batch inactive
PauseOnLastItemDoesNotBlock ==
    (\E w \in Workers : InFlight(w) /\ processing_thread = w /\ is_paused
                        /\ scan_queue = << >>)
        ~> ~is_processing

\* the batch has ended with status completed and the paused flag set
PauseOnLastItemCompleted ==
    \E w \in Workers :
        PausedOnLastItem(w) /\ Status = "completed" /\ scan_progress.total = 2

\* C37: the worker of a batch that is never paused or stopped, all of whose
\* lookups return, gets to the end of its loop with the queue empty, the
\* status completed and the batch inactive, which is what the guard of a new
\* start asks for.
StartedBatchTerminates ==
    \A w \in Workers :
        (pcw[w] = "w309") ~>
            (/\ pcw[w] = "w356"
             /\ scan_queue = << >>
             /\ Status = "completed"
             /\ ~is_processing)

\* the first batch has completed and a second start has been accepted, whose
\* worker has drained its two identifiers as well
StartedBatchTerminatesWitness ==
    /\ pcw[1] = "done"
    /\ pcw[2] = "w356"
    /\ current_batch_id = 2
    /\ Status = "completed" /\ ~is_processing
    /\ Len(scan_results) = 2 /\ scan_queue = << >>

=============================================================================
